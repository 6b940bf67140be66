---------------------- MODULE VRouterConfig_contract -----------------------
(***************************************************************************)
(* Proofs about VRouterConfig while the informer cache is current          *)
(* (MaxLag = 0): Applied=True is only shown for a generation whose script  *)
(* succeeded (or whose handle was given out twice), the phase and the      *)
(* condition agree, a handle was given to an exec of the generation        *)
(* observed, and the object obeys ConfigContract;                          *)
(* an exec in flight has its own start time, a reboot forces one re-apply, *)
(* and while all is calm scripts run one after the other.                  *)
(***************************************************************************)
EXTENDS VRouterConfig_proofs, FiniteSetTheorems

CacheCurrent == MaxLag = 0

\* What a status s of incarnation u, at generation g, promises about the execs q.
Faithful(q, s, u, g) ==
    /\ s.applied.status = "True" =>
           \E p \in DOMAIN q : q[p].uid = u /\ q[p].gen = s.applied.gen /\ Vouches(q[p])
    /\ s.pid > 0 => s.pid \in DOMAIN q /\ q[s.pid].uid = u /\ q[s.pid].gen = s.obs
    /\ s.pid > 0 <=> s.phase = "Applying"
    /\ s.applied.status = "True" <=> s.phase = "Applied"
    /\ s.phase = "Applied" => s.applied.gen = s.obs
    /\ s.obs <= g /\ g > 0

\* The reconcile's next status is a move of the contract, or shows nothing new.
Allowed(s, n, g) == View(n) = View(s) \/ Contract!Move(View(s), View(n), g)

\* The inductive invariant: the finalizer keeps the object while a reconcile of it
\* is under way, nobody else writes its status, and the patch about to be sent is
\* faithful and allowed.
StepInv ==
    /\ Faithful(scripts, Api.st, Api.uid, Api.gen)
    /\ MidReconcile => /\ Api.live /\ Api.fin /\ snap.uid = Api.uid /\ snap.st = Api.st
                       /\ snap.st.obs <= snap.gen /\ 0 < snap.gen /\ snap.gen <= Api.gen
    /\ pc = "patch" => /\ Faithful(scripts, next, snap.uid, snap.gen)
                       /\ Allowed(snap.st, next, snap.gen)
                       /\ ret = "checkReady" => View(next) = View(snap.st)

----------------------------------------------------------------------------
(* The statuses the reconcile writes are faithful and allowed *)

LEMMA ViewType ==
    \A s \in Statuses : /\ View(s) \in Contract!StatusType
                        /\ View(s).phase = s.phase /\ View(s).obs = s.obs
BY DEF View, Contract!StatusType, Statuses, Phases, Conds

LEMMA SameView ==
    \A s, n \in Statuses :
        n.phase = s.phase /\ n.obs = s.obs /\ n.applied = s.applied => View(n) = View(s)
BY DEF View

\* Statuses of the contract are the same when their fields are.
LEMMA StatusEqual ==
    \A a, b \in Contract!StatusType :
        a.phase = b.phase /\ a.obs = b.obs /\ a.ok = b.ok => a = b
BY DEF Contract!StatusType

LEMMA MoveTypes ==
    \A v \in Contract!StatusType :
        /\ Contract!Failed(v) \in Contract!StatusType
        /\ Contract!Failed(v).phase = "Failed" /\ Contract!Failed(v).obs = v.obs
        /\ Contract!Failed(v).ok = 0
        /\ Contract!Succeeded(v) \in Contract!StatusType
        /\ Contract!Succeeded(v).phase = "Applied" /\ Contract!Succeeded(v).obs = v.obs
        /\ Contract!Succeeded(v).ok = v.obs
        /\ Contract!Reset(v) \in Contract!StatusType
        /\ Contract!Reset(v).phase = "Pending" /\ Contract!Reset(v).obs = v.obs
        /\ Contract!Reset(v).ok = 0
        /\ \A g \in Nat : /\ Contract!Dispatched(v, g) \in Contract!StatusType
                          /\ Contract!Dispatched(v, g).phase = "Applying"
                          /\ Contract!Dispatched(v, g).obs = g
                          /\ Contract!Dispatched(v, g).ok = 0
BY DEF Contract!StatusType, Contract!Failed, Contract!Succeeded, Contract!Reset,
       Contract!Dispatched

LEMMA FailedAllowed ==
    ASSUME NEW q, NEW s \in Statuses, NEW u, NEW g \in Nat, Faithful(q, s, u, g), s.pid > 0
    PROVE  Faithful(q, Failed(s), u, g) /\ Allowed(s, Failed(s), g)
<1> DEFINE n == Failed(s)
<1>1. n \in Statuses /\ n.phase = "Failed" /\ n.pid = 0 /\ n.obs = s.obs
      /\ n.applied = False(s.obs, "Failed")
  BY FailedFields
<1>2. n.applied.status = "False"
  BY <1>1 DEF False
<1> HIDE DEF n
<1>3. Faithful(q, n, u, g)
  BY <1>1, <1>2 DEF Faithful
<1>4. View(n).phase = "Failed" /\ View(n).obs = View(s).obs /\ View(n).ok = 0
  BY <1>1, <1>2 DEF View
<1>5. View(n) = Contract!Failed(View(s))
  BY <1>1, <1>4, ViewType, MoveTypes, StatusEqual
<1>6. View(s).phase = "Applying"
  BY ViewType DEF Faithful
<1> QED
  BY <1>3, <1>5, <1>6 DEF Allowed, Contract!Move, n

LEMMA NotReadyAllowed ==
    ASSUME NEW q, NEW s \in Statuses, NEW u, NEW g \in Nat, Faithful(q, s, u, g),
           s.phase = "Applied"
    PROVE  Faithful(q, NotReady(s), u, g) /\ Allowed(s, NotReady(s), g)
<1> DEFINE n == NotReady(s)
<1>1. n \in Statuses /\ n.phase = "Pending" /\ n.pid = s.pid /\ n.obs = s.obs
      /\ n.applied = False(s.obs, "NotReady")
  BY NotReadyFields
<1>2. n.applied.status = "False"
  BY <1>1 DEF False
<1> HIDE DEF n
<1>3. Faithful(q, n, u, g)
  BY <1>1, <1>2 DEF Faithful
<1>4. View(n).phase = "Pending" /\ View(n).obs = View(s).obs /\ View(n).ok = 0
  BY <1>1, <1>2 DEF View
<1>5. View(n) = Contract!Reset(View(s))
  BY <1>1, <1>4, ViewType, MoveTypes, StatusEqual
<1>6. View(s).phase = "Applied"
  BY ViewType
<1> QED
  BY <1>3, <1>5, <1>6 DEF Allowed, Contract!Move, n

LEMMA LostAllowed ==
    ASSUME NEW q, NEW s \in Statuses, NEW u, NEW g \in Nat, Faithful(q, s, u, g), s.pid > 0
    PROVE  Faithful(q, Lost(s), u, g) /\ Allowed(s, Lost(s), g)
<1> DEFINE n == Lost(s)
<1>1. n \in Statuses /\ n.phase = "Pending" /\ n.pid = 0 /\ n.obs = s.obs
      /\ n.applied = s.applied
  BY LostFields
<1>2. s.phase = "Applying" /\ s.applied.status # "True"
  BY DEF Faithful
<1> HIDE DEF n
<1>3. Faithful(q, n, u, g)
  BY <1>1, <1>2 DEF Faithful
<1>4. View(n).phase = "Pending" /\ View(n).obs = View(s).obs /\ View(n).ok = 0
  BY <1>1, <1>2 DEF View
<1>5. View(n) = Contract!Reset(View(s))
  BY <1>1, <1>4, ViewType, MoveTypes, StatusEqual
<1>6. View(s).phase = "Applying"
  BY <1>2, ViewType
<1> QED
  BY <1>3, <1>5, <1>6 DEF Allowed, Contract!Move, n

LEMMA AppliedAllowed ==
    ASSUME NEW q, NEW s \in Statuses, NEW u, NEW g \in Nat, Faithful(q, s, u, g),
           s.pid > 0, Vouches(q[s.pid]), NEW h
    PROVE  Faithful(q, Applied(s, h), u, g) /\ Allowed(s, Applied(s, h), g)
<1> DEFINE n == Applied(s, h)
<1>1. n \in Statuses /\ n.phase = "Applied" /\ n.pid = 0 /\ n.obs = s.obs
      /\ n.applied = True(s.obs)
  BY AppliedFields
<1>2. n.applied.status = "True" /\ n.applied.gen = s.obs
  BY <1>1 DEF True
<1> HIDE DEF n
<1>3. Faithful(q, n, u, g)
  BY <1>1, <1>2 DEF Faithful
<1>4. View(n).phase = "Applied" /\ View(n).obs = View(s).obs /\ View(n).ok = View(s).obs
  BY <1>1, <1>2, ViewType DEF View
<1>5. View(n) = Contract!Succeeded(View(s))
  BY <1>1, <1>4, ViewType, MoveTypes, StatusEqual
<1>6. View(s).phase = "Applying"
  BY ViewType DEF Faithful
<1> QED
  BY <1>3, <1>5, <1>6 DEF Allowed, Contract!Move, n

LEMMA KeptAllowed ==
    ASSUME NEW q, NEW s \in Statuses, NEW u, NEW g \in Nat, Faithful(q, s, u, g),
           NEW n \in Statuses, n.phase = s.phase, n.pid = s.pid, n.obs = s.obs,
           n.applied = s.applied
    PROVE  Faithful(q, n, u, g) /\ Allowed(s, n, g) /\ View(n) = View(s)
<1>1. View(n) = View(s)
  BY SameView
<1>2. Faithful(q, n, u, g)
  <2>1. s.pid \in Nat /\ s.obs \in Nat
    BY DEF Statuses
  <2>2. s.applied.status = "True" =>
           \E p \in DOMAIN q : q[p].uid = u /\ q[p].gen = s.applied.gen /\ Vouches(q[p])
    BY DEF Faithful
  <2>3. n.applied.status = "True" =>
           \E p \in DOMAIN q : q[p].uid = u /\ q[p].gen = n.applied.gen /\ Vouches(q[p])
    BY <2>2
  <2>4. n.pid > 0 => n.pid \in DOMAIN q /\ q[n.pid].uid = u /\ q[n.pid].gen = n.obs
    BY <2>1 DEF Faithful
  <2>5. n.pid > 0 <=> n.phase = "Applying"
    BY <2>1 DEF Faithful
  <2>6. n.applied.status = "True" <=> n.phase = "Applied"
    BY DEF Faithful
  <2>7. n.phase = "Applied" => n.applied.gen = n.obs
    BY DEF Faithful
  <2> QED
    BY <2>3, <2>4, <2>5, <2>6, <2>7 DEF Faithful
<1> QED
  BY <1>1, <1>2 DEF Allowed

LEMMA DispatchedAllowed ==
    ASSUME NEW q, NEW s \in Statuses, NEW u, NEW g \in Nat, Faithful(q, s, u, g),
           s.pid = 0, NEW p \in Nat, p \in DOMAIN q, p > 0, q[p].uid = u, q[p].gen = g,
           NEW r \in Nat
    PROVE  Faithful(q, Dispatched(s, p, g, r), u, g) /\ Allowed(s, Dispatched(s, p, g, r), g)
<1> DEFINE n == Dispatched(s, p, g, r)
<1>1. n \in Statuses /\ n.phase = "Applying" /\ n.pid = p /\ n.obs = g
      /\ n.applied = False(g, "Applying")
  <2>1. False(g, "Applying") \in Conds
    BY DEF False, Conds
  <2>2. n \in Statuses
    BY <2>1 DEF Dispatched, Statuses, Phases
  <2>3. n.phase = "Applying" /\ n.pid = p /\ n.obs = g
    BY DEF Dispatched, Statuses
  <2>4. n.applied = False(g, "Applying")
    BY DEF Dispatched, Statuses
  <2> QED
    BY <2>2, <2>3, <2>4
<1>2. n.applied.status = "False"
  BY <1>1 DEF False
<1> HIDE DEF n
<1>3. Faithful(q, n, u, g)
  BY <1>1, <1>2 DEF Faithful
<1>4. View(n).phase = "Applying" /\ View(n).obs = g /\ View(n).ok = 0
  BY <1>1, <1>2 DEF View
<1>5. View(n) = Contract!Dispatched(View(s), View(n).obs)
  BY <1>1, <1>4, ViewType, MoveTypes, StatusEqual
<1>6. View(s).phase # "Applying" /\ Contract!CanDispatch(View(s), View(n).obs, g)
  BY <1>4, ViewType DEF Faithful, Contract!CanDispatch
<1> QED
  BY <1>3, <1>5, <1>6 DEF Allowed, Contract!Move, n

----------------------------------------------------------------------------
(* The inductive invariant *)

LEMMA FaithfulGrows ==
    \A q, r, s, u, g : Faithful(q, s, u, g) /\ Grows(q, r) => Faithful(r, s, u, g)
BY DEF Faithful, Grows

LEMMA OneVersion ==
    ASSUME TypeOK, CacheCurrent
    PROVE  Len(stream) = 1 /\ stream \in Seq(Versions) /\ Cache = Api
<1>1. stream \in Seq(Versions) /\ Len(stream) = 1
  BY DEF TypeOK, CacheCurrent
<1>2. Head(stream) = stream[1]
  BY <1>1
<1> QED
  BY <1>1, <1>2 DEF Cache, Api

LEMMA FaithfulInit == Init => StepInv
<1> SUFFICES ASSUME Init PROVE StepInv
  OBVIOUS
<1>1. CASE stream = <<NewCfg(1)>> /\ scripts = <<>>
  <2>1. Api = NewCfg(1)
    BY <1>1 DEF Api
  <2>2. Faithful(scripts, NewStatus, 1, 1)
    BY DEF Faithful, NewStatus
  <2> QED
    BY <2>1, <2>2 DEF Init, StepInv, MidReconcile, NewCfg
<1>2. CASE stream = <<LegacyCfg>>
           /\ scripts = <<[NewScript(1, 1, 0) EXCEPT
                              !.tracked = Provider # "daemon",
                              !.freed = Provider = "daemon", !.rec = TRUE]>>
  <2> DEFINE e == [NewScript(1, 1, 0) EXCEPT !.tracked = Provider # "daemon",
                                             !.freed = Provider = "daemon", !.rec = TRUE]
             l == [NewStatus EXCEPT !.phase = "Applying", !.pid = 1, !.obs = 1,
                                    !.applied = [status |-> "False", gen |-> 1, why |-> "Applying"]]
  <2>1. Api = LegacyCfg
    BY <1>2 DEF Api
  <2>2. LegacyCfg.uid = 1 /\ LegacyCfg.gen = 1 /\ LegacyCfg.st = l
    BY DEF LegacyCfg, NewCfg
  <2>3. scripts[1].uid = 1 /\ scripts[1].gen = 1 /\ 1 \in DOMAIN scripts
    <3>1. e.uid = 1 /\ e.gen = 1
      BY DEF NewScript
    <3>2. scripts = <<e>>
      BY <1>2
    <3> HIDE DEF e
    <3> QED
      BY <3>1, <3>2
  <2>4. l.phase = "Applying" /\ l.pid = 1 /\ l.obs = 1 /\ l.applied.status = "False"
    BY DEF NewStatus
  <2> HIDE DEF l
  <2>5. Faithful(scripts, l, 1, 1)
    BY <2>3, <2>4 DEF Faithful
  <2> QED
    BY <2>1, <2>2, <2>5 DEF Init, StepInv, MidReconcile
<1> QED
  BY <1>1, <1>2 DEF Init

LEMMA FaithfulLater ==
    ASSUME NEW q, NEW s, NEW u, NEW g \in Nat, NEW h \in Nat, s.obs \in Nat,
           Faithful(q, s, u, g), g <= h
    PROVE  Faithful(q, s, u, h)
BY DEF Faithful

LEMMA Midway ==
    ASSUME TypeOK, StepInv, MidReconcile
    PROVE  Faithful(scripts, snap.st, snap.uid, snap.gen)
BY InHand DEF StepInv, Faithful

\* A step that keeps the stored object, and returns or lets the reconcile be.
LEMMA KeptStep ==
    ASSUME TypeOK, StepInv, Grows(scripts, scripts'), UNCHANGED stream,
           pc' = "idle" \/ UNCHANGED local
    PROVE  StepInv'
<1>1. Api' = Api
  BY DEF Api
<1>2. Faithful(scripts', Api'.st, Api'.uid, Api'.gen)
  BY <1>1, FaithfulGrows DEF StepInv
<1>3. CASE pc' = "idle"
  BY <1>2, <1>3 DEF StepInv, MidReconcile
<1>4. CASE UNCHANGED local
  <2>1. UNCHANGED <<pc, snap, next, ret>>
    BY <1>4 DEF local
  <2>2. pc = "patch" => Faithful(scripts', next, snap.uid, snap.gen)
    BY FaithfulGrows DEF StepInv
  <2>3. Allowed(snap.st, next, snap.gen)' <=> Allowed(snap.st, next, snap.gen)
    BY <2>1 DEF Allowed, View, Contract!Move, Contract!CanDispatch
  <2>4. View(next)' = View(next) /\ View(snap.st)' = View(snap.st)
    BY <2>1 DEF View
  <2> QED
    BY <1>1, <1>2, <2>1, <2>2, <2>3, <2>4 DEF StepInv, MidReconcile
<1> QED
  BY <1>3, <1>4

\* A reconcile step that sends a faithful, allowed status.
LEMMA SentStep ==
    ASSUME TypeOK, StepInv, MidReconcile, Grows(scripts, scripts'),
           NEW n \in Statuses, NEW then \in {"done", "requeue"}, SendPatch(n, then),
           Faithful(scripts', n, snap.uid, snap.gen), Allowed(snap.st, n, snap.gen)
    PROVE  StepInv'
<1>1. /\ UNCHANGED <<stream, snap>> /\ pc' = "patch" /\ next' = n
      /\ ret' \in {"done", "requeue"}
  BY DEF SendPatch
<1>2. Api' = Api
  BY <1>1 DEF Api
<1>3. Faithful(scripts', Api'.st, Api'.uid, Api'.gen)
  BY <1>2, FaithfulGrows DEF StepInv
<1>4. Allowed(snap.st, next, snap.gen)'
  BY <1>1 DEF Allowed, View, Contract!Move, Contract!CanDispatch
<1> QED
  BY <1>1, <1>2, <1>3, <1>4 DEF StepInv, MidReconcile

LEMMA ReadStep ==
    ASSUME TypeOK, StepInv, CacheCurrent, Reconcile, Grows(scripts, scripts') PROVE StepInv'
<1>1. CASE ~Cache.live
  BY <1>1, KeptStep DEF Reconcile
<1>2. CASE Cache.live
  <2>1. snap' = Api /\ pc' = Branch(Api) /\ Api.live /\ UNCHANGED <<stream, next>>
    BY <1>2, OneVersion DEF Reconcile
  <2>2. Api' = Api
    BY <2>1 DEF Api
  <2>3. Faithful(scripts', Api'.st, Api'.uid, Api'.gen)
    BY <2>2, FaithfulGrows DEF StepInv
  <2>4. pc' # "patch" /\ (MidReconcile' => Api.fin)
    BY <2>1 DEF Branch, MidReconcile
  <2>5. Api.st.obs <= Api.gen /\ 0 < Api.gen /\ Api.gen <= Api.gen
    BY InHand DEF StepInv, Faithful
  <2> QED
    BY <2>1, <2>2, <2>3, <2>4, <2>5 DEF StepInv
<1> QED
  BY <1>1, <1>2

\* A step that ends the reconcile and changes at most the stored object's life.
LEMMA EndedStep ==
    ASSUME TypeOK, StepInv, Grows(scripts, scripts'), pc' = "idle",
           Api'.uid = Api.uid, Api'.st = Api.st, Api'.gen = Api.gen
    PROVE  StepInv'
BY FaithfulGrows DEF StepInv, MidReconcile

LEMMA FinalizerStep ==
    ASSUME TypeOK, StepInv, UpdateFinalizer, Grows(scripts, scripts')
    PROVE  StepInv' /\ Api'.uid = Api.uid /\ Api'.st = Api.st /\ Api'.gen = Api.gen
<1> DEFINE v == [snap EXCEPT !.fin = ~snap.del, !.live = ~snap.del]
<1>1. snap \in Versions
  BY DEF TypeOK
<1>2. v \in Versions /\ v.uid = snap.uid /\ v.st = snap.st /\ v.gen = snap.gen
  BY <1>1 DEF Versions
<1> HIDE DEF v
<1>3. CASE snap = Api
  <2>1. Push(v) /\ pc' = "idle"
    BY <1>3 DEF UpdateFinalizer, Return, v
  <2>2. Api' = v
    BY <1>2, <2>1, PushType
  <2> QED
    BY <1>2, <1>3, <2>1, <2>2, EndedStep
<1>4. CASE snap # Api
  <2>1. UNCHANGED stream /\ pc' = "idle"
    BY <1>4 DEF UpdateFinalizer, Return
  <2>2. Api' = Api
    BY <2>1 DEF Api
  <2> QED
    BY <2>1, <2>2, EndedStep
<1> QED
  BY <1>3, <1>4

\* Probe and poll: every answer sends an allowed status, or returns.
LEMMA ProbeStep ==
    ASSUME TypeOK, StepInv, CheckReadyFails, Grows(scripts, scripts') PROVE StepInv'
<1>1. MidReconcile /\ Faithful(scripts, snap.st, snap.uid, snap.gen) /\ UNCHANGED scripts
  BY Midway DEF CheckReadyFails, MidReconcile, world
<1>2. snap.st \in Statuses /\ snap.gen \in Nat
  BY InHand
<1>3. CASE TimedOut(snap.st)
  <2>1. Faithful(scripts, Failed(snap.st), snap.uid, snap.gen)
        /\ Allowed(snap.st, Failed(snap.st), snap.gen)
    BY <1>1, <1>2, <1>3, FailedAllowed DEF TimedOut
  <2>2. SendPatch(Failed(snap.st), "done")
    BY <1>3 DEF CheckReadyFails
  <2> QED
    BY <1>1, <2>1, <2>2, SentTypes, SentStep
<1>4. CASE ~TimedOut(snap.st) /\ snap.st.phase = "Applied"
  <2>1. Faithful(scripts, NotReady(snap.st), snap.uid, snap.gen)
        /\ Allowed(snap.st, NotReady(snap.st), snap.gen)
    BY <1>1, <1>2, <1>4, NotReadyAllowed
  <2>2. SendPatch(NotReady(snap.st), "requeue")
    BY <1>4 DEF CheckReadyFails
  <2> QED
    BY <1>1, <2>1, <2>2, SentTypes, SentStep
<1>5. CASE ~TimedOut(snap.st) /\ snap.st.phase # "Applied"
  <2>1. UNCHANGED stream /\ pc' = "idle"
    BY <1>5 DEF CheckReadyFails, Return
  <2> QED
    BY <2>1, KeptStep
<1> QED
  BY <1>3, <1>4, <1>5

LEMMA PollStep ==
    ASSUME TypeOK, StepInv, Poll, Grows(scripts, scripts') PROVE StepInv'
<1> DEFINE p == snap.st.pid
<1>1. MidReconcile /\ p > 0
  BY DEF Poll, PollRunning, PollExited, PollLost, PollError, MidReconcile
<1>2. snap.st \in Statuses /\ snap.gen \in Nat
  BY InHand
<1>3. Faithful(scripts, snap.st, snap.uid, snap.gen)
      /\ Faithful(scripts', snap.st, snap.uid, snap.gen)
  BY <1>1, Midway, FaithfulGrows
<1>4. CASE SendPatch(Failed(snap.st), "done")
  BY <1>1, <1>2, <1>3, <1>4, FailedAllowed, SentTypes, SentStep
<1>5. CASE SendPatch(Lost(snap.st), "requeue")
  BY <1>1, <1>2, <1>3, <1>5, LostAllowed, SentTypes, SentStep
<1>6. CASE SendPatch([snap.st EXCEPT !.phase = "Applying"], "requeue")
  <2> DEFINE n == [snap.st EXCEPT !.phase = "Applying"]
  <2>1. n \in Statuses /\ n.phase = "Applying" /\ n.pid = snap.st.pid
        /\ n.obs = snap.st.obs /\ n.applied = snap.st.applied
    BY <1>2, PhaseFields DEF Phases
  <2> HIDE DEF n
  <2>2. n.phase = snap.st.phase
    BY <1>1, <1>3, <2>1 DEF Faithful
  <2>3. Faithful(scripts', n, snap.uid, snap.gen) /\ Allowed(snap.st, n, snap.gen)
    BY <1>2, <1>3, <2>1, <2>2, KeptAllowed
  <2>4. SendPatch(n, "requeue")
    BY <1>6 DEF n
  <2> QED
    BY <1>1, <2>1, <2>3, <2>4, SentStep
<1>7. CASE SendPatch(Applied(snap.st, snap.gen), "done") /\ Vouches(scripts[p])
  <2>1. Vouches(scripts'[p])
    BY <1>1, <1>3, <1>7 DEF Grows, Faithful
  <2>2. Faithful(scripts', Applied(snap.st, snap.gen), snap.uid, snap.gen)
        /\ Allowed(snap.st, Applied(snap.st, snap.gen), snap.gen)
    BY <1>1, <1>2, <1>3, <2>1, AppliedAllowed
  <2> QED
    BY <1>1, <1>7, <2>2, SentTypes, SentStep
<1>8. CASE UNCHANGED stream /\ pc' = "idle"
  BY <1>8, KeptStep
<1>9. "ok" \in Answers(p) => Vouches(scripts[p])
  BY DEF Answers, Vouches
<1> QED
  BY <1>4, <1>5, <1>6, <1>7, <1>8, <1>9
     DEF Poll, PollRunning, PollExited, ExitedOk, PollLost, PollError, Return

LEMMA BeginStep ==
    ASSUME TypeOK, StepInv, Grows(scripts, scripts'),
           onChange \/ onChangeStopped \/ onChangeError \/ CheckReady \/ SkipDone
    PROVE  StepInv'
<1>1. CASE onChangeStopped \/ onChangeError \/ SkipDone
  <2>1. UNCHANGED stream /\ pc' = "idle"
    BY <1>1 DEF onChangeStopped, onChangeError, SkipDone, Return
  <2> QED
    BY <2>1, KeptStep
<1>2. ASSUME onChange \/ CheckReady
      PROVE  /\ MidReconcile /\ UNCHANGED <<stream, snap, scripts>> /\ Api' = Api
             /\ Faithful(scripts', Api'.st, Api'.uid, Api'.gen)
  BY <1>2 DEF onChange, CheckReady, MidReconcile, world, Api, StepInv
<1>3. CASE CheckReady
  <2>1. pc' = "dispatchOrPoll"
    BY <1>3 DEF CheckReady
  <2> QED
    BY <1>2, <1>3, <2>1 DEF StepInv, MidReconcile
<1>4. CASE onChange /\ ~NeedsStart(snap.st)
  <2>1. pc' = "checkReady"
    BY <1>4 DEF onChange
  <2> QED
    BY <1>2, <1>4, <2>1 DEF StepInv, MidReconcile
<1>5. CASE onChange /\ NeedsStart(snap.st)
  <2> DEFINE n == [snap.st EXCEPT !.started = snap.st.pid]
  <2>1. pc' = "patch" /\ next' = n
    BY <1>5 DEF onChange
  <2>2. n \in Statuses /\ n.phase = snap.st.phase /\ n.pid = snap.st.pid
        /\ n.obs = snap.st.obs /\ n.applied = snap.st.applied
    BY InHand, StartedFields
  <2> HIDE DEF n
  <2>3. Faithful(scripts, snap.st, snap.uid, snap.gen) /\ snap.st \in Statuses
        /\ snap.gen \in Nat
    BY <1>2, <1>5, Midway, InHand
  <2>4. Faithful(scripts, n, snap.uid, snap.gen) /\ Allowed(snap.st, n, snap.gen)
        /\ View(n) = View(snap.st)
    BY <2>2, <2>3, KeptAllowed
  <2>5. Allowed(snap.st, next, snap.gen)' /\ View(next)' = View(snap.st)'
    BY <1>2, <1>5, <2>1, <2>4 DEF Allowed, View, Contract!Move, Contract!CanDispatch
  <2> QED
    BY <1>2, <1>5, <2>1, <2>4, <2>5 DEF StepInv, MidReconcile
<1> QED
  BY <1>1, <1>3, <1>4, <1>5

LEMMA DispatchStep ==
    ASSUME TypeOK, StepInv, Grows(scripts, scripts'),
           applyConfig \/ applyConfigError \/ applyConfigUnreachable
    PROVE  StepInv'
<1> DEFINE p == Len(scripts) + 1
           n == Dispatched(snap.st, p, snap.gen, reboot)
<1>1. MidReconcile /\ snap.st.pid = 0
  BY DEF applyConfig, applyConfigError, applyConfigUnreachable, MidReconcile, MustApply,
         NothingInFlight
<1>2. snap.st \in Statuses /\ snap.gen \in Nat /\ snap.uid \in Nat /\ reboot \in Nat
      /\ scripts \in Seq(Scripts) /\ p \in Nat /\ p > 0
  BY InHand DEF TypeOK
<1>3. Faithful(scripts', snap.st, snap.uid, snap.gen)
  BY <1>1, Midway, FaithfulGrows
<1>4. CASE applyConfigError
  <2>1. UNCHANGED stream /\ pc' = "idle"
    BY <1>4 DEF applyConfigError, Return
  <2> QED
    BY <2>1, KeptStep
<1>5. CASE applyConfig \/ applyConfigUnreachable
  <2>1. \A r \in Nat : /\ p \in DOMAIN Start(r)
                       /\ Start(r)[p].uid = snap.uid /\ Start(r)[p].gen = snap.gen
                       /\ Start(r)[p] \in Scripts
    <3> TAKE r \in Nat
    <3>1. NewScript(snap.uid, snap.gen, r) \in Scripts
      BY <1>2, ScriptType
    <3>2. Start(r)[p] = NewScript(snap.uid, snap.gen, r) /\ p \in DOMAIN Start(r)
      BY <1>2, <3>1, AppendProperties DEF Start
    <3> QED
      BY <3>1, <3>2 DEF NewScript
  <2>2. p \in DOMAIN scripts' /\ scripts'[p].uid = snap.uid /\ scripts'[p].gen = snap.gen
    <3>1. CASE applyConfig
      <4>1. \E r \in Nat : scripts' = Start(r)
        BY <1>2, <3>1 DEF applyConfig
      <4> QED
        BY <2>1, <4>1
    <3>2. CASE applyConfigUnreachable
      <4>1. \A x \in Scripts : [x EXCEPT !.st = "dead", !.broken = TRUE].uid = x.uid
                               /\ [x EXCEPT !.st = "dead", !.broken = TRUE].gen = x.gen
        BY DEF Scripts
      <4>2. p \in DOMAIN scripts'
            /\ scripts'[p] = [Start(0)[p] EXCEPT !.st = "dead", !.broken = TRUE]
        BY <2>1, <3>2 DEF applyConfigUnreachable
      <4> QED
        BY <2>1, <4>1, <4>2
    <3> QED
      BY <1>5, <3>1, <3>2
  <2>3. SendPatch(n, "requeue")
    BY <1>5 DEF applyConfig, applyConfigUnreachable
  <2>4. n \in Statuses
    BY <1>2, SentTypes
  <2> HIDE DEF p
  <2>5. Faithful(scripts', n, snap.uid, snap.gen) /\ Allowed(snap.st, n, snap.gen)
    BY <1>1, <1>2, <1>3, <2>2, DispatchedAllowed
  <2> QED
    BY <1>1, <2>3, <2>4, <2>5, SentStep
<1> QED
  BY <1>4, <1>5

\* The patch stores exactly the status the reconcile wants: it started from the
\* stored one.
LEMMA Stored ==
    ASSUME TypeOK, StepInv, pc = "patch"
    PROVE  /\ Patched.st = next /\ Patched.uid = Api.uid /\ Patched.gen = Api.gen
           /\ Patched.live = Api.live /\ Patched.fin = Api.fin
           /\ Faithful(scripts, next, Api.uid, Api.gen)
<1>1. snap.st = Api.st /\ snap.uid = Api.uid /\ snap.gen <= Api.gen
      /\ Faithful(scripts, next, snap.uid, snap.gen)
  BY DEF StepInv, MidReconcile
<1>2. MergePatch(Api.st, snap.st, next) = next
  BY <1>1, InHand, MergeFromStored
<1>3. Api \in Versions
  BY InHand
<1> QED
  BY <1>1, <1>2, <1>3, InHand, FaithfulLater DEF Patched, Versions

LEMMA PatchStep == ASSUME TypeOK, StepInv, Patch, Grows(scripts, scripts') PROVE StepInv'
<1>1. CASE PatchStatusFails
  <2>1. UNCHANGED stream /\ pc' = "idle"
    BY <1>1 DEF PatchStatusFails, Return
  <2> QED
    BY <2>1, KeptStep
<1>2. CASE PatchStatus \/ PatchStatusAnswerLost
  <2>1. pc = "patch" /\ Api.live /\ Push(Patched)
    BY <1>2 DEF PatchStatus, PatchStatusAnswerLost
  <2>2. Api' = Patched
    BY <2>1, PatchedType, PushType
  <2>3. Faithful(scripts', Api'.st, Api'.uid, Api'.gen)
    BY <2>1, <2>2, Stored, FaithfulGrows
  <2>4. Api.fin
    BY <2>1 DEF StepInv, MidReconcile
  <2>5. \/ pc' = "idle"
        \/ pc' = "checkReady" /\ snap' = Patched
    BY <1>2 DEF PatchStatus, PatchStatusAnswerLost, Return
  <2>6. Patched.st.obs <= Patched.gen /\ 0 < Patched.gen /\ Patched.gen <= Patched.gen
    BY <2>1, Stored, InHand DEF Faithful
  <2> QED
    BY <2>1, <2>2, <2>3, <2>4, <2>5, <2>6, Stored DEF StepInv, MidReconcile
<1> QED
  BY <1>1, <1>2 DEF Patch

\* A step of somebody else that leaves the object alive while it is reconciled.
LEMMA OutsideStep ==
    ASSUME TypeOK, StepInv, UNCHANGED local, Grows(scripts, scripts'), Api' \in Versions,
           Api'.uid = Api.uid, Api'.st = Api.st, Api.gen <= Api'.gen,
           MidReconcile => Api'.live /\ Api'.fin
    PROVE  StepInv'
<1>1. UNCHANGED <<pc, snap, next, ret>>
  BY DEF local
<1>2. Api.gen \in Nat /\ Api'.gen \in Nat /\ snap.gen \in Nat /\ Api.st.obs \in Nat
  BY InHand DEF Versions
<1>3. Faithful(scripts', Api'.st, Api'.uid, Api'.gen)
  BY <1>2, FaithfulGrows, FaithfulLater DEF StepInv
<1>4. pc = "patch" => Faithful(scripts', next, snap.uid, snap.gen)
  BY FaithfulGrows DEF StepInv
<1>5. Allowed(snap.st, next, snap.gen)' <=> Allowed(snap.st, next, snap.gen)
  BY <1>1 DEF Allowed, View, Contract!Move, Contract!CanDispatch
<1>6. View(next)' = View(next) /\ View(snap.st)' = View(snap.st)
  BY <1>1 DEF View
<1>7. MidReconcile => snap.gen <= Api'.gen
  BY <1>2 DEF StepInv
<1> QED
  BY <1>1, <1>3, <1>4, <1>5, <1>6, <1>7 DEF StepInv, MidReconcile

LEMMA WriteStep ==
    ASSUME TypeOK, StepInv, SpecUpdate \/ Delete \/ Recreate, Grows(scripts, scripts')
    PROVE  /\ StepInv'
           /\ SpecUpdate => Api'.gen = Api.gen + 1 /\ Api'.uid = Api.uid /\ Api'.st = Api.st
           /\ Delete => Api'.gen = Api.gen /\ Api'.uid = Api.uid /\ Api'.st = Api.st
           /\ Recreate => Api'.gen = 1 /\ Api'.uid = Api.uid + 1 /\ Api'.st = NewStatus
<1>1. Api \in Versions /\ Api.gen \in Nat /\ Api.uid \in Nat
  BY InHand
<1>2. \A v \in Versions : Write(v) => Api' = v /\ UNCHANGED <<local, scripts>>
  BY PushType DEF Write, world
<1>3. ASSUME SpecUpdate
      PROVE  StepInv' /\ Api'.gen = Api.gen + 1 /\ Api'.uid = Api.uid /\ Api'.st = Api.st
  <2> DEFINE v == [Api EXCEPT !.gen = @ + 1]
  <2>1. v \in Versions /\ v.uid = Api.uid /\ v.gen = Api.gen + 1 /\ v.live = Api.live
        /\ v.fin = Api.fin /\ v.st = Api.st
    <3>1. \A x \in Versions, g \in Nat :
             /\ [x EXCEPT !.gen = g] \in Versions /\ [x EXCEPT !.gen = g].uid = x.uid
             /\ [x EXCEPT !.gen = g].gen = g /\ [x EXCEPT !.gen = g].live = x.live
             /\ [x EXCEPT !.gen = g].fin = x.fin /\ [x EXCEPT !.gen = g].st = x.st
      BY DEF Versions
    <3> QED
      BY <1>1, <3>1
  <2>2. Write(v)
    BY <1>3 DEF SpecUpdate
  <2> HIDE DEF v
  <2>3. Api' = v /\ UNCHANGED <<local, scripts>>
    BY <1>2, <2>1, <2>2
  <2>4. MidReconcile => Api'.live /\ Api'.fin
    BY <2>1, <2>3 DEF StepInv
  <2>5. Api.gen <= Api'.gen
    BY <1>1, <2>1, <2>3
  <2> QED
    BY <2>1, <2>3, <2>4, <2>5, OutsideStep
<1>4. ASSUME Delete
      PROVE  StepInv' /\ Api'.gen = Api.gen /\ Api'.uid = Api.uid /\ Api'.st = Api.st
  <2> DEFINE v == IF Api.fin THEN [Api EXCEPT !.del = TRUE] ELSE [Api EXCEPT !.live = FALSE]
  <2>1. v \in Versions /\ v.uid = Api.uid /\ v.gen = Api.gen /\ v.st = Api.st
        /\ (Api.fin => v.fin /\ v.live = Api.live)
    BY <1>1 DEF Versions
  <2>2. Write(v)
    BY <1>4 DEF Delete
  <2> HIDE DEF v
  <2>3. Api' = v /\ UNCHANGED <<local, scripts>>
    BY <1>2, <2>1, <2>2
  <2>4. MidReconcile => Api'.live /\ Api'.fin
    BY <2>1, <2>3 DEF StepInv
  <2>5. Api.gen <= Api'.gen
    BY <1>1, <2>1, <2>3
  <2> QED
    BY <2>1, <2>3, <2>4, <2>5, OutsideStep
<1>5. ASSUME Recreate
      PROVE  StepInv' /\ Api'.gen = 1 /\ Api'.uid = Api.uid + 1 /\ Api'.st = NewStatus
  <2>1. NewCfg(Api.uid + 1) \in Versions
    BY <1>1, NewFields
  <2>2. Api' = NewCfg(Api.uid + 1) /\ UNCHANGED <<local, scripts>>
    BY <1>2, <1>5, <2>1 DEF Recreate
  <2>3. Api'.gen = 1 /\ Api'.uid = Api.uid + 1 /\ Api'.st = NewStatus
    BY <2>2 DEF NewCfg
  <2>4. ~MidReconcile
    BY <1>5 DEF Recreate, StepInv
  <2>5. Faithful(scripts', NewStatus, Api.uid + 1, 1)
    BY DEF Faithful, NewStatus
  <2> QED
    BY <2>2, <2>3, <2>4, <2>5 DEF StepInv, MidReconcile, local
<1> QED
  BY <1>3, <1>4, <1>5

LEMMA RestartStep ==
    ASSUME TypeOK, StepInv, OperatorRestart, Grows(scripts, scripts')
    PROVE  StepInv' /\ Api' = Api
<1>1. Api' = Api
  BY DEF OperatorRestart, Api
<1>2. pc' = "idle"
  BY DEF OperatorRestart, Return
<1> QED
  BY <1>1, <1>2, EndedStep

WorldStep == \/ ScriptEnds \/ TimePasses \/ VMStop \/ VMStart
             \/ TargetPoll \/ RebootPublish \/ AgentFails \/ OthersShare

LEMMA WorldKeeps == WorldStep => UNCHANGED <<stream, local>>
BY DEF WorldStep, ScriptEnds, Finish, TimePasses, Elapse, VMStop, VMStart, TargetPoll,
       RebootPublish, AgentFails, OthersShare, NumberReused, ResultTaken

LEMMA FaithfulStep ==
    ASSUME TypeOK, StepInv, CacheCurrent, [Next]_vars PROVE StepInv'
<1>1. Grows(scripts, scripts')
  BY ScriptsGrow
<1>2. CASE Controller
  BY <1>1, <1>2, ReadStep, FinalizerStep, BeginStep, ProbeStep, PollStep, DispatchStep,
     PatchStep DEF Controller, Dispatch
<1>3. CASE WorldStep
  BY <1>1, <1>3, WorldKeeps, KeptStep
<1>4. CASE Deliver
  BY <1>4, OneVersion DEF Deliver
<1>5. CASE SpecUpdate \/ Delete \/ Recreate
  BY <1>1, <1>5, WriteStep
<1>6. CASE OperatorRestart
  BY <1>1, <1>6, RestartStep
<1>7. CASE UNCHANGED vars
  BY <1>1, <1>7, KeptStep DEF vars
<1> QED
  BY <1>2, <1>3, <1>4, <1>5, <1>6, <1>7 DEF Next, Environment, WorldStep

\* The invariant the results below rest on.
THEOREM StepInvariant == ASSUME CacheCurrent PROVE Spec => [](TypeOK /\ StepInv)
<1>1. Init => TypeOK /\ StepInv
  BY TypeInit, FaithfulInit
<1>2. TypeOK /\ StepInv /\ [Next]_vars => (TypeOK /\ StepInv)'
  BY TypeStep, FaithfulStep
<1> QED
  BY <1>1, <1>2, PTL DEF Spec

\* With a current cache, Applied=True names a generation of this very object whose
\* script succeeded, or whose handle the daemon provider gave to another config's call
\* after a restart, whatever faults and spec changes come in between.
THEOREM AppliedIsSound == ASSUME CacheCurrent PROVE Spec => []AppliedSound
<1>1. StepInv => AppliedSound
  BY DEF StepInv, Faithful, AppliedSound, Vouches
<1> QED
  BY <1>1, StepInvariant, PTL

\* And where numbers are not given out twice - the guest gives them, or the daemon
\* provider's process does not restart - a script of that generation did succeed.
THEOREM AppliedIsOwn ==
    ASSUME CacheCurrent, OwnHandles PROVE Spec => []AppliedByOwnScript
BY AppliedIsSound, OwnAlways, OwnApplied, PTL

\* With a current cache, the condition is True exactly in phase Applied, for the
\* generation last dispatched and with nothing in flight.
THEOREM ConditionIsPhase == ASSUME CacheCurrent PROVE Spec => []AppliedMatchesPhase
<1>1. TypeOK /\ StepInv => AppliedMatchesPhase
  <2> SUFFICES ASSUME TypeOK, StepInv PROVE AppliedMatchesPhase
    OBVIOUS
  <2>1. Api.st.pid \in Nat
    BY InHand DEF Statuses
  <2> QED
    BY <2>1 DEF StepInv, Faithful, AppliedMatchesPhase
<1> QED
  BY <1>1, StepInvariant, PTL

\* With a current cache, the recorded handle was given to an exec of this object and
\* of the generation observedGeneration names.
THEOREM HandleIsOwn == ASSUME CacheCurrent PROVE Spec => []HandleMatchesGeneration
<1>1. StepInv => HandleMatchesGeneration
  BY DEF StepInv, Faithful, HandleMatchesGeneration
<1> QED
  BY <1>1, StepInvariant, PTL

----------------------------------------------------------------------------
(* The object obeys ConfigContract *)

LEMMA ContractInit == Init => Contract!Init
<1> SUFFICES ASSUME Init PROVE Contract!Init
  OBVIOUS
<1>1. Api.uid = 1 /\ Api.gen = 1 /\ Api.st \in {NewStatus, LegacyCfg.st}
  <2>1. \E v \in {NewCfg(1), LegacyCfg} : stream = <<v>>
    BY DEF Init
  <2>2. Api \in {NewCfg(1), LegacyCfg}
    BY <2>1 DEF Api
  <2>3. NewCfg(1).uid = 1 /\ NewCfg(1).gen = 1 /\ NewCfg(1).st = NewStatus
    BY DEF NewCfg
  <2>4. LegacyCfg.uid = 1 /\ LegacyCfg.gen = 1
    BY DEF LegacyCfg, NewCfg
  <2> QED
    BY <2>2, <2>3, <2>4
<1>2. View(NewStatus) = Contract!NewStatus
  BY DEF View, NewStatus, Contract!NewStatus
<1>3. View(LegacyCfg.st) = Contract!Dispatched(Contract!NewStatus, 1)
  <2> DEFINE l == [NewStatus EXCEPT !.phase = "Applying", !.pid = 1, !.obs = 1,
                                    !.applied = [status |-> "False", gen |-> 1, why |-> "Applying"]]
  <2>1. LegacyCfg.st = l
    BY DEF LegacyCfg, NewCfg
  <2>2. l.phase = "Applying" /\ l.obs = 1 /\ l.applied.status = "False"
    BY DEF NewStatus
  <2> HIDE DEF l
  <2>3. View(l) = [phase |-> "Applying", obs |-> 1, ok |-> 0]
    BY <2>2 DEF View
  <2>4. View(l) \in Contract!StatusType /\ Contract!NewStatus \in Contract!StatusType
    BY <2>3 DEF Contract!StatusType, Contract!NewStatus
  <2> QED
    BY <2>1, <2>3, <2>4, MoveTypes, StatusEqual
<1> QED
  BY <1>1, <1>2, <1>3 DEF Contract!Init

\* A step that changes neither the incarnation, the generation nor the status.
LEMMA Quiet ==
    ASSUME Api'.uid = Api.uid, Api'.gen = Api.gen, Api'.st = Api.st
    PROVE  UNCHANGED Contract!vars
BY DEF Contract!vars, View

LEMMA ContractStep ==
    ASSUME TypeOK, StepInv, CacheCurrent, [Next]_vars PROVE [Contract!Next]_(Contract!vars)
<1>1. Grows(scripts, scripts')
  BY ScriptsGrow
<1>2. CASE UNCHANGED stream
  BY <1>2, Quiet DEF Api
<1>3. CASE PatchStatus \/ PatchStatusAnswerLost
  <2>1. pc = "patch" /\ Push(Patched)
    BY <1>3 DEF PatchStatus, PatchStatusAnswerLost
  <2>2. Api'.st = next /\ Api'.uid = Api.uid /\ Api'.gen = Api.gen
    BY <2>1, PatchedType, PushType, Stored
  <2>3. Allowed(Api.st, next, snap.gen) /\ snap.gen <= Api.gen
    BY <2>1 DEF StepInv, MidReconcile
  <2>4. CASE View(next) = View(Api.st)
    BY <2>2, <2>4 DEF Contract!vars, View
  <2>5. CASE Contract!Move(View(Api.st), View(next), snap.gen)
    <3>1. Api.gen \in Nat /\ snap.gen \in Nat /\ View(next).obs \in Nat
      BY InHand, ViewType
    <3>2. Contract!Move(View(Api.st), View(next), Api.gen)
      BY <2>3, <2>5, <3>1 DEF Contract!Move, Contract!CanDispatch
    <3>3. View(Api.st)' = View(next)
      BY <2>2 DEF View
    <3> QED
      BY <2>2, <3>2, <3>3 DEF Contract!Next
  <2> QED
    BY <2>3, <2>4, <2>5 DEF Allowed
<1>4. CASE SpecUpdate \/ Delete \/ Recreate
  <2>1. CASE SpecUpdate
    <3>1. Api'.gen = Api.gen + 1 /\ Api'.uid = Api.uid /\ View(Api.st)' = View(Api.st)
      BY <1>1, <2>1, WriteStep DEF View
    <3> QED
      BY <3>1 DEF Contract!Next
  <2>2. CASE Delete
    BY <1>1, <2>2, WriteStep, Quiet
  <2>3. CASE Recreate
    <3>1. Api'.gen = 1 /\ Api'.uid = Api.uid + 1 /\ Api'.st = NewStatus
      BY <1>1, <2>3, WriteStep
    <3>2. View(Api.st)' = Contract!NewStatus
      BY <3>1 DEF View, NewStatus, Contract!NewStatus
    <3> QED
      BY <3>1, <3>2 DEF Contract!Next, Contract!Created
  <2> QED
    BY <1>4, <2>1, <2>2, <2>3
<1>5. CASE UpdateFinalizer
  BY <1>1, <1>5, FinalizerStep, Quiet
<1>6. CASE OperatorRestart
  BY <1>1, <1>6, RestartStep, Quiet
<1>7. CASE Deliver
  BY <1>7, OneVersion DEF Deliver
<1>8. \/ UNCHANGED stream \/ PatchStatus \/ PatchStatusAnswerLost
      \/ SpecUpdate \/ Delete \/ Recreate \/ UpdateFinalizer \/ OperatorRestart \/ Deliver
  <2>1. CASE Controller
    BY <2>1 DEF Controller, Reconcile, onChange, onChangeStopped, onChangeError, CheckReady,
         CheckReadyFails, Poll, PollRunning, PollExited, PollLost, PollError, Dispatch,
         SkipDone, applyConfig, applyConfigError, applyConfigUnreachable, Patch,
         PatchStatusFails, SendPatch
  <2>2. CASE Environment
    BY <2>2, WorldKeeps DEF Environment, WorldStep
  <2> QED
    BY <2>1, <2>2 DEF Next, vars
<1> QED
  BY <1>2, <1>3, <1>4, <1>5, <1>6, <1>7, <1>8

\* With a current cache, what others see of a config is the abstract life of a
\* config: every status patch is one move of ConfigStatus, or shows nothing new.
THEOREM ObeysContract == ASSUME CacheCurrent PROVE Spec => ImplementsContract
<1>1. Init => Contract!Init
  BY ContractInit
<1>2. TypeOK /\ StepInv /\ [Next]_vars => [Contract!Next]_(Contract!vars)
  BY ContractStep
<1> QED
  BY <1>1, <1>2, StepInvariant, PTL DEF Spec, ImplementsContract, Contract!Spec

----------------------------------------------------------------------------
(* What a step does to the stored status, the pending one and the reboots *)

\* The stored status is the pending one, or a new object's, or it stays.
LEMMA StatusMoves ==
    ASSUME TypeOK, StepInv, [Next]_vars
    PROVE  \/ Api'.uid = Api.uid /\ Api'.st = Api.st
           \/ /\ PatchStatus \/ PatchStatusAnswerLost
              /\ pc = "patch" /\ Api'.uid = Api.uid /\ Api'.st = next
           \/ /\ UNCHANGED local /\ ~MidReconcile
              /\ Api'.uid = Api.uid + 1 /\ Api'.st = NewStatus
<1>1. CASE Api' = Api
  BY <1>1
<1>2. CASE Finalizes(Api')
  BY <1>2 DEF Finalizes
<1>3. CASE Patches(Api')
  <2>1. pc = "patch" /\ Api'.uid = Api.uid /\ Api'.st = MergePatch(Api.st, snap.st, next)
    BY <1>3 DEF Patches, PatchStatus, PatchStatusAnswerLost
  <2>2. Patched.st = next /\ Patched = [Api EXCEPT !.st = MergePatch(Api.st, snap.st, next)]
    BY <2>1, Stored DEF Patched
  <2>3. Patched.st = MergePatch(Api.st, snap.st, next)
    BY <2>2, InHand DEF Versions
  <2> QED
    BY <1>3, <2>1, <2>2, <2>3 DEF Patches
<1>4. CASE Edits(Api')
  BY <1>4 DEF Edits
<1>5. CASE Recreates(Api')
  BY <1>5 DEF Recreates, StepInv
<1> QED
  BY <1>1, <1>2, <1>3, <1>4, <1>5, ApiMoves

\* A reconcile that has the object in hand has the stored status in hand.
LEMMA CopyIsStored ==
    ASSUME TypeOK, StepInv, MidReconcile PROVE snap.uid = Api.uid /\ snap.st = Api.st
BY DEF StepInv

\* What a pending patch says of the exec and of the reboots.
LEMMA PendingMoves ==
    ASSUME TypeOK, StepInv, [Next]_vars, pc' = "patch"
    PROVE  \/ UNCHANGED local /\ pc = "patch"
           \/ /\ Proceeds /\ next' \in Statuses /\ UNCHANGED <<snap, stream>>
              /\ \/ /\ next'.pid = snap.st.pid /\ next'.handled = snap.st.handled
                    /\ next'.started \in {snap.st.pid, snap.st.started}
                 \/ /\ next'.pid = 0 /\ next'.started = 0 /\ next'.handled = snap.st.handled
                 \/ /\ applyConfig \/ applyConfigUnreachable
                    /\ snap.st.pid = 0 /\ next'.pid = Len(scripts) + 1
                    /\ next'.started = next'.pid /\ next'.handled = reboot
                    /\ UNCHANGED reboot
<1>1. snap.st \in Statuses /\ snap.st.pid \in Nat /\ snap.gen \in Nat /\ reboot \in Nat
      /\ Len(scripts) + 1 \in Nat
  BY InHand DEF TypeOK
<1>2. CASE Proceeds
  <2>1. next' \in Statuses
    BY TypeStep DEF TypeOK
  <2>2. UNCHANGED <<snap, stream>>
    BY <1>2 DEF Proceeds
  <2>3. CASE next' = [snap.st EXCEPT !.started = snap.st.pid]
    BY <1>1, <1>2, <2>1, <2>2, <2>3, StartedFields
  <2>4. CASE next' \in {Failed(snap.st), Lost(snap.st), Applied(snap.st, snap.gen)}
    BY <1>1, <1>2, <2>1, <2>2, <2>4, FailedFields, LostFields, AppliedFields
  <2>5. CASE next' = NotReady(snap.st)
    BY <1>1, <1>2, <2>1, <2>2, <2>5, NotReadyFields
  <2>6. CASE next' = [snap.st EXCEPT !.phase = "Applying"]
    <3>1. next'.pid = snap.st.pid /\ next'.started = snap.st.started
          /\ next'.handled = snap.st.handled
      BY <1>1, <2>6 DEF Statuses
    <3> QED
      BY <1>2, <2>1, <2>2, <3>1
  <2>7. CASE /\ applyConfig \/ applyConfigUnreachable
             /\ next' = Dispatched(snap.st, Len(scripts) + 1, snap.gen, reboot)
             /\ UNCHANGED reboot
    <3>1. snap.st.pid = 0
      BY <2>7 DEF applyConfig, applyConfigUnreachable, MustApply, NothingInFlight
    <3>2. next'.pid = Len(scripts) + 1 /\ next'.started = Len(scripts) + 1
          /\ next'.handled = reboot
      BY <1>1, <2>7 DEF Dispatched, Statuses
    <3> QED
      BY <1>2, <2>1, <2>2, <2>7, <3>1, <3>2
  <2> QED
    BY <1>2, <2>3, <2>4, <2>5, <2>6, <2>7, SentMoves
<1>3. CASE UNCHANGED local
  BY <1>3 DEF local
<1>4. ~Reads /\ ~Stamps
  BY DEF Reads, Branch, Stamps
<1> QED
  BY <1>2, <1>3, <1>4, LocalMoves

----------------------------------------------------------------------------
(* The start time goes with the handle *)

\* A status's start time is that of its exec; the exec an older operator left may
\* still wait for its stamp.
Dated(s) == s.started = s.pid \/ (Legacy /\ s.started = 0 /\ s.pid = 1)

\* A patch records an exec only over a status that has none.
DateInv ==
    /\ Dated(Api.st)
    /\ pc = "patch" => /\ Dated(next)
                       /\ next.pid \in {0, snap.st.pid} \/ snap.st.pid = 0

LEMMA DateInit == Init => DateInv
<1> SUFFICES ASSUME Init PROVE DateInv
  OBVIOUS
<1>1. CASE stream = <<NewCfg(1)>>
  <2>1. Api = NewCfg(1)
    BY <1>1 DEF Api
  <2>2. Api.st.started = 0 /\ Api.st.pid = 0
    BY <2>1 DEF NewCfg, NewStatus
  <2> QED
    BY <2>2 DEF Init, DateInv, Dated
<1>2. CASE stream = <<LegacyCfg>> /\ Legacy
  <2>1. Api = LegacyCfg
    BY <1>2 DEF Api
  <2>2. LegacyCfg.st = [NewStatus EXCEPT !.phase = "Applying", !.pid = 1, !.obs = 1,
                           !.applied = [status |-> "False", gen |-> 1, why |-> "Applying"]]
    BY DEF LegacyCfg, NewCfg
  <2>3. LegacyCfg.st.started = 0 /\ LegacyCfg.st.pid = 1
    BY <2>2 DEF NewStatus
  <2> QED
    BY <1>2, <2>1, <2>3 DEF Init, DateInv, Dated
<1> QED
  BY <1>1, <1>2 DEF Init

LEMMA DateStep == ASSUME TypeOK, StepInv, DateInv, [Next]_vars PROVE DateInv'
<1>1. Dated(Api'.st)
  <2>1. Dated(NewStatus)
    BY DEF Dated, NewStatus
  <2> QED
    BY <2>1, StatusMoves DEF DateInv
<1>2. ASSUME pc' = "patch"
      PROVE  Dated(next') /\ (next'.pid \in {0, snap'.st.pid} \/ snap'.st.pid = 0)
  <2>1. CASE UNCHANGED local /\ pc = "patch"
    BY <2>1 DEF local, DateInv
  <2>2. CASE Proceeds /\ UNCHANGED <<snap, stream>>
    <3>1. Dated(snap.st)
      BY <2>2, CopyIsStored DEF DateInv, Proceeds
    <3> QED
      BY <1>2, <2>2, <3>1, PendingMoves DEF Dated, Proceeds
  <2> QED
    BY <1>2, <2>1, <2>2, PendingMoves
<1> QED
  BY <1>1, <1>2 DEF DateInv, Dated

LEMMA DateInvariant == ASSUME CacheCurrent PROVE Spec => [](TypeOK /\ StepInv /\ DateInv)
<1>1. Init => TypeOK /\ StepInv /\ DateInv
  BY TypeInit, FaithfulInit, DateInit
<1>2. TypeOK /\ StepInv /\ DateInv /\ [Next]_vars => (TypeOK /\ StepInv /\ DateInv)'
  BY TypeStep, FaithfulStep, DateStep
<1> QED
  BY <1>1, <1>2, PTL DEF Spec

\* With a current cache, an exec in flight has its own start time, so that it is
\* subject to execApplyTimeout; only the exec that an older operator left may have none.
THEOREM ClockIsOwn == ASSUME CacheCurrent PROVE Spec => []TimeoutClockMatchesExec
<1>1. DateInv => TimeoutClockMatchesExec
  BY DEF DateInv, Dated, TimeoutClockMatchesExec
<1> QED
  BY <1>1, DateInvariant, PTL

----------------------------------------------------------------------------
(* A reboot is handled once *)

Sends == pc = "patch" /\ next.pid > 0 /\ next.pid # snap.st.pid

\* No exec is of an incarnation yet to come.
UidsPast == \A p \in DOMAIN scripts : scripts[p].uid <= Api.uid

\* The reboot that is handled is one that was read, and that one was published.
RebootsRead ==
    /\ Api.st.handled <= target.reboot
    /\ pc \in {"checkReady", "dispatchOrPoll", "patch"} =>
           snap.st.handled <= reboot /\ reboot <= target.reboot
    /\ pc = "patch" => snap.st.handled <= next.handled /\ next.handled <= reboot

\* The patch that records an exec handles the reboot that forced it, and no patch
\* did before.
ForcedHandled ==
    \A p \in DOMAIN scripts :
        scripts[p].rec /\ scripts[p].uid = Api.uid => scripts[p].forced <= Api.st.handled
ForcedSent ==
    Sends => \/ scripts[next.pid].forced = 0
             \/ scripts[next.pid].forced = next.handled /\ snap.st.handled < next.handled

RebootInv == UidsPast /\ RebootsRead /\ ForcedHandled /\ ForcedSent /\ OneApplyPerReboot

LEMMA RebootInit == Init => RebootInv
<1> SUFFICES ASSUME Init PROVE RebootInv
  OBVIOUS
<1>1. Api.uid = 1 /\ Api.st.handled = 0
  <2>1. \E v \in {NewCfg(1), LegacyCfg} : stream = <<v>>
    BY DEF Init
  <2>2. Api \in {NewCfg(1), LegacyCfg}
    BY <2>1 DEF Api
  <2>3. NewCfg(1).uid = 1 /\ NewCfg(1).st.handled = 0
    BY DEF NewCfg, NewStatus
  <2>4. LegacyCfg.uid = 1 /\ LegacyCfg.st = [NewStatus EXCEPT !.phase = "Applying", !.pid = 1,
           !.obs = 1, !.applied = [status |-> "False", gen |-> 1, why |-> "Applying"]]
    BY DEF LegacyCfg, NewCfg
  <2>5. LegacyCfg.st.handled = 0
    BY <2>4 DEF NewStatus
  <2> QED
    BY <2>2, <2>3, <2>4, <2>5
<1>2. \A p \in DOMAIN scripts : scripts[p].uid = 1 /\ scripts[p].forced = 0
  <2>1. CASE scripts = <<>>
    BY <2>1
  <2>2. CASE scripts = <<[NewScript(1, 1, 0) EXCEPT
                             !.tracked = Provider # "daemon",
                             !.freed = Provider = "daemon", !.rec = TRUE]>>
    <3> DEFINE e == [NewScript(1, 1, 0) EXCEPT !.tracked = Provider # "daemon",
                                               !.freed = Provider = "daemon", !.rec = TRUE]
    <3>1. e.uid = 1 /\ e.forced = 0
      BY DEF NewScript
    <3>2. scripts = <<e>>
      BY <2>2
    <3> HIDE DEF e
    <3> QED
      BY <3>1, <3>2
  <2> QED
    BY <2>1, <2>2 DEF Init
<1>3. pc = "idle" /\ target.reboot = 0
  BY DEF Init
<1> QED
  BY <1>1, <1>2, <1>3
     DEF RebootInv, UidsPast, RebootsRead, ForcedHandled, ForcedSent, Sends, OneApplyPerReboot

\* The types the comparisons below need.
LEMMA RebootTypes ==
    ASSUME TypeOK
    PROVE  /\ Api.st.handled \in Nat /\ snap.st.handled \in Nat /\ next.handled \in Nat
           /\ reboot \in Nat /\ target.reboot \in Nat /\ next.pid \in Nat /\ snap.st.pid \in Nat
           /\ Api.uid \in Nat
           /\ \A p \in DOMAIN scripts : scripts[p].uid \in Nat /\ scripts[p].forced \in Nat
<1>1. \A p \in DOMAIN scripts : scripts[p] \in Scripts
  BY DEF TypeOK
<1>2. \A p \in DOMAIN scripts : scripts[p].uid \in Nat /\ scripts[p].forced \in Nat
  BY <1>1 DEF Scripts
<1> QED
  BY <1>2, InHand DEF TypeOK, Statuses

\* Published reboots only go forward; a reconcile reads the published one once.
LEMMA RebootMoves ==
    ASSUME TypeOK, [Next]_vars
    PROVE  /\ target.reboot <= target'.reboot
           /\ pc' # "idle" => \/ UNCHANGED reboot
                              \/ pc = "onChange" /\ reboot' = target.reboot /\ UNCHANGED target
<1>1. target.reboot \in Nat /\ boots \in Nat /\ target \in [vmRunning : BOOLEAN, reboot : Nat]
  BY DEF TypeOK
<1>2. CASE RebootPublish
  <2>1. target'.reboot = boots /\ target.reboot < boots /\ UNCHANGED reboot
    BY <1>1, <1>2 DEF RebootPublish, local
  <2> QED
    BY <1>1, <2>1
<1>3. CASE TargetPoll
  BY <1>1, <1>3 DEF TargetPoll, local
<1>4. CASE onChange
  BY <1>1, <1>4 DEF onChange, world
<1>5. CASE Controller /\ ~onChange
  BY <1>1, <1>5 DEF Controller, Reconcile, UpdateFinalizer, onChangeStopped, onChangeError,
     CheckReady, CheckReadyFails, Poll, PollRunning, PollExited, PollLost, PollError, Dispatch,
     SkipDone, applyConfig, applyConfigError, applyConfigUnreachable, Patch, PatchStatus,
     PatchStatusFails, PatchStatusAnswerLost, SendPatch, Return, world, local
<1>6. CASE Environment /\ ~RebootPublish /\ ~TargetPoll
  <2>1. UNCHANGED target
    BY <1>6 DEF Environment, Deliver, SpecUpdate, Delete, Recreate, Write, ScriptEnds,
       Finish, TimePasses, Elapse, VMStop, VMStart, AgentFails, OperatorRestart, OthersShare,
       NumberReused, ResultTaken, world
  <2>2. pc' # "idle" => UNCHANGED reboot
    BY <1>6 DEF Environment, Deliver, SpecUpdate, Delete, Recreate, Write, ScriptEnds,
       Finish, TimePasses, Elapse, VMStop, VMStart, AgentFails, OperatorRestart, OthersShare,
       NumberReused, ResultTaken, Return, local
  <2> QED
    BY <1>1, <2>1, <2>2
<1>7. CASE UNCHANGED vars
  BY <1>1, <1>7 DEF vars, world, local
<1> QED
  BY <1>2, <1>3, <1>4, <1>5, <1>6, <1>7 DEF Next

LEMMA UidsStep == ASSUME TypeOK, StepInv, UidsPast, [Next]_vars PROVE UidsPast'
<1>1. Api.uid <= Api'.uid
  BY StatusMoves, RebootTypes
<1>2. ASSUME NEW p \in DOMAIN scripts' PROVE scripts'[p].uid <= Api'.uid
  <2>1. CASE p \in DOMAIN scripts
    <3>1. scripts'[p].uid = scripts[p].uid
      BY <2>1, ScriptMoves DEF OldExec, Persists
    <3>2. Api.uid \in Nat /\ Api'.uid \in Nat /\ scripts[p].uid \in Nat
      BY <2>1, StatusMoves, RebootTypes
    <3> QED
      BY <1>1, <2>1, <3>1, <3>2 DEF UidsPast
  <2>2. CASE NewExec(p)
    <3>1. pc = "dispatchOrPoll" /\ scripts'[p].uid = snap.uid
      BY <2>2 DEF NewExec
    <3> QED
      BY <1>1, <3>1, CopyIsStored DEF MidReconcile
  <2> QED
    BY <2>1, <2>2, ScriptMoves
<1> QED
  BY <1>2 DEF UidsPast

LEMMA RebootReadStep == ASSUME TypeOK, StepInv, RebootsRead, [Next]_vars PROVE RebootsRead'
<1>0. TypeOK'
  BY TypeStep
<1>1. Api.st.handled \in Nat /\ snap.st.handled \in Nat /\ next.handled \in Nat
      /\ reboot \in Nat /\ target.reboot \in Nat /\ target'.reboot \in Nat
      /\ target.reboot <= target'.reboot
  BY <1>0, RebootTypes, RebootMoves DEF TypeOK
<1>2. Api'.st.handled <= target'.reboot
  <2>1. CASE Api'.st = Api.st
    BY <1>1, <2>1 DEF RebootsRead
  <2>2. CASE pc = "patch" /\ Api'.st = next
    BY <1>1, <2>2 DEF RebootsRead
  <2>3. CASE Api'.st = NewStatus
    BY <1>1, <2>3 DEF NewStatus
  <2> QED
    BY <2>1, <2>2, <2>3, StatusMoves
<1>3. ASSUME pc' \in {"checkReady", "dispatchOrPoll", "patch"}
      PROVE  snap'.st.handled <= reboot' /\ reboot' <= target'.reboot
  <2>1. CASE UNCHANGED local
    BY <1>1, <1>3, <2>1 DEF local, RebootsRead
  <2>2. CASE Proceeds
    <3>1. snap.st = Api.st /\ UNCHANGED snap
      BY <2>2, CopyIsStored DEF Proceeds
    <3>2. CASE pc = "onChange" /\ reboot' = target.reboot /\ UNCHANGED target
      BY <1>1, <3>1, <3>2 DEF RebootsRead
    <3>3. CASE UNCHANGED reboot /\ pc # "onChange"
      BY <1>1, <2>2, <3>1, <3>3 DEF RebootsRead, Proceeds, MidReconcile
    <3>4. CASE UNCHANGED reboot /\ pc = "onChange"
      <4>1. onChange
        BY <2>2, <3>4 DEF Proceeds, Next, Controller, Environment, Reconcile, UpdateFinalizer,
           onChangeStopped, onChangeError, CheckReady, CheckReadyFails, Poll, PollRunning,
           PollExited, PollLost, PollError, Dispatch, SkipDone, applyConfig, applyConfigError,
           applyConfigUnreachable, Patch, PatchStatus, PatchStatusFails, PatchStatusAnswerLost,
           SendPatch, Return, Deliver, SpecUpdate, Delete, Recreate, Write, ScriptEnds, Finish,
           TimePasses, Elapse, VMStop, VMStart, TargetPoll, RebootPublish, AgentFails,
           OperatorRestart, OthersShare, NumberReused, ResultTaken, local, vars
      <4>2. reboot' = target.reboot /\ UNCHANGED target
        BY <4>1 DEF onChange, world
      <4> QED
        BY <1>1, <3>1, <4>2 DEF RebootsRead
    <3> QED
      BY <1>3, <3>2, <3>3, <3>4, RebootMoves
  <2>3. CASE Stamps
    <3>1. pc = "patch" /\ snap' = Api' /\ UNCHANGED reboot
      BY <2>3 DEF Stamps, PatchStatus
    <3>2. Api'.st = next \/ Api'.st = Api.st
      BY <3>1, StatusMoves DEF MidReconcile
    <3>3. Api'.st.handled <= reboot
      BY <1>1, <3>1, <3>2, CopyIsStored DEF RebootsRead, MidReconcile
    <3> QED
      BY <1>1, <3>1, <3>3 DEF RebootsRead
  <2>4. ~Reads
    BY <1>3 DEF Reads, Branch
  <2> QED
    BY <1>3, <2>1, <2>2, <2>3, <2>4, LocalMoves
<1>4. ASSUME pc' = "patch"
      PROVE  snap'.st.handled <= next'.handled /\ next'.handled <= reboot'
  <2>1. CASE UNCHANGED local /\ pc = "patch"
    BY <1>1, <2>1 DEF local, RebootsRead
  <2>2. CASE Proceeds /\ UNCHANGED snap /\ next'.handled = snap.st.handled
    <3>1. snap.st.handled <= reboot' /\ reboot' \in Nat
      BY <1>0, <1>3, <1>4, <2>2 DEF TypeOK
    <3> QED
      BY <1>1, <2>2, <3>1
  <2>3. CASE Proceeds /\ UNCHANGED <<snap, reboot>> /\ next'.handled = reboot
    <3>1. snap.st.handled <= reboot
      BY <1>3, <1>4, <2>3
    <3> QED
      BY <1>1, <2>3, <3>1
  <2> QED
    BY <1>4, <2>1, <2>2, <2>3, PendingMoves
<1> QED
  BY <1>2, <1>3, <1>4 DEF RebootsRead

\* The exec a pending patch records is one of this object; while the patch is
\* pending nothing is recorded as in flight.
LEMMA SentExec ==
    ASSUME TypeOK, StepInv, DateInv, Sends
    PROVE  /\ next.pid \in DOMAIN scripts /\ scripts[next.pid].uid = snap.uid
           /\ scripts[next.pid].gen = next.obs
           /\ snap.st.pid = 0 /\ snap.st = Api.st /\ snap.uid = Api.uid
<1>1. pc = "patch" /\ next.pid > 0 /\ next.pid # snap.st.pid /\ next.pid \in Nat
  BY RebootTypes DEF Sends
<1>2. snap.st.pid = 0
  BY <1>1 DEF DateInv
<1> QED
  BY <1>1, <1>2, CopyIsStored DEF StepInv, Faithful, MidReconcile

LEMMA ForcedSentStep ==
    ASSUME TypeOK, StepInv, DateInv, RebootInv, [Next]_vars PROVE ForcedSent'
<1> SUFFICES ASSUME Sends'
             PROVE  \/ scripts'[next'.pid].forced = 0
                    \/ /\ scripts'[next'.pid].forced = next'.handled
                       /\ snap'.st.handled < next'.handled
  BY DEF ForcedSent
<1>1. pc' = "patch" /\ next'.pid > 0 /\ next'.pid # snap'.st.pid
  BY DEF Sends
<1>2. CASE UNCHANGED local /\ pc = "patch"
  <2>1. Sends /\ UNCHANGED <<next, snap>>
    BY <1>1, <1>2 DEF local, Sends
  <2>2. next.pid \in DOMAIN scripts
    BY <2>1, SentExec
  <2>3. scripts'[next.pid].forced = scripts[next.pid].forced
    BY <2>2, ScriptMoves DEF OldExec, Persists
  <2> QED
    BY <2>1, <2>3 DEF RebootInv, ForcedSent
<1>3. CASE /\ Proceeds /\ UNCHANGED <<snap, reboot>>
           /\ applyConfig \/ applyConfigUnreachable
           /\ next'.pid = Len(scripts) + 1 /\ next'.handled = reboot
  <2> DEFINE n == Len(scripts) + 1
  <2>1. n \in DOMAIN scripts' /\ n \notin DOMAIN scripts
    <3>1. \E y \in Scripts : scripts' = Append(scripts, y)
                \/ scripts' = [Append(scripts, y) EXCEPT ![n].st = "dead", ![n].broken = TRUE]
      <4>1. \A r \in Nat : NewScript(snap.uid, snap.gen, r) \in Scripts
        BY InHand, ScriptType
      <4>2. reboot \in Nat
        BY RebootTypes
      <4> QED
        BY <1>3, <4>1, <4>2 DEF applyConfig, applyConfigUnreachable, Start
    <3>2. \A y \in Scripts : DOMAIN Append(scripts, y) = 1..n
      BY AppendProperties DEF TypeOK
    <3>3. DOMAIN scripts' = 1..n
      BY <3>1, <3>2
    <3>4. Len(scripts) \in Nat /\ DOMAIN scripts = 1..Len(scripts)
      BY DEF TypeOK
    <3> QED
      BY <3>3, <3>4
  <2>2. NewExec(n)
    BY <2>1, ScriptMoves
  <2>3. CASE scripts'[n].forced = 0
    BY <1>3, <2>3
  <2>4. CASE scripts'[n].forced = reboot /\ ConclusivelyDone
    <3>1. snap.st.handled < reboot
      BY <2>2, <2>4 DEF NewExec, MustApply, Forced, shouldForceReapplyForReboot
    <3> QED
      BY <1>3, <2>4, <3>1
  <2> QED
    BY <2>2, <2>3, <2>4 DEF NewExec
<1> QED
  BY <1>1, <1>2, <1>3, PendingMoves DEF Proceeds

\* Records: a patch just recorded exec p, which handles its reboot first.
LEMMA JustRecorded ==
    ASSUME TypeOK, StepInv, DateInv, RebootInv, [Next]_vars,
           NEW p \in DOMAIN scripts', scripts'[p].rec,
           p \notin DOMAIN scripts \/ ~scripts[p].rec
    PROVE  /\ p \in DOMAIN scripts /\ p = next.pid /\ scripts[p].uid = Api.uid
           /\ Api'.uid = Api.uid /\ Api'.st.handled = next.handled
           /\ scripts[p].forced <= next.handled
           /\ scripts[p].forced > 0 => Api.st.handled < scripts[p].forced
<1>1. p \in DOMAIN scripts
  BY ScriptMoves DEF NewExec
<1>2. (PatchStatus \/ PatchStatusAnswerLost) /\ p = next.pid /\ next.pid # snap.st.pid
  <2>1. scripts[p] \in Scripts
    BY <1>1 DEF TypeOK
  <2>2. scripts[p].rec \in BOOLEAN
    BY <2>1 DEF Scripts
  <2> QED
    BY <1>1, <2>2, ScriptMoves DEF OldExec
<1>3. pc = "patch" /\ p > 0
  <2>1. scripts \in Seq(Scripts)
    BY DEF TypeOK
  <2>2. p > 0
    BY <1>1, <2>1
  <2>3. pc = "patch"
    BY <1>2 DEF PatchStatus, PatchStatusAnswerLost
  <2> QED
    BY <2>2, <2>3
<1>4. Sends
  BY <1>2, <1>3 DEF Sends
<1>5. scripts[p].uid = Api.uid /\ snap.st = Api.st
  BY <1>2, <1>4, SentExec
<1>6. Api'.uid = Api.uid /\ Api'.st = next
  <2>1. Push(Patched)
    BY <1>2 DEF PatchStatus, PatchStatusAnswerLost
  <2> QED
    BY <1>3, <2>1, Stored, PatchedType, PushType
<1> QED
  BY <1>1, <1>2, <1>4, <1>5, <1>6, RebootTypes DEF RebootInv, ForcedSent

LEMMA ForcedHandledStep ==
    ASSUME TypeOK, StepInv, DateInv, RebootInv, [Next]_vars PROVE ForcedHandled'
<1> SUFFICES ASSUME NEW p \in DOMAIN scripts', scripts'[p].rec, scripts'[p].uid = Api'.uid
             PROVE  scripts'[p].forced <= Api'.st.handled
  BY DEF ForcedHandled
<1>1. CASE p \in DOMAIN scripts /\ scripts[p].rec
  <2>1. scripts'[p].uid = scripts[p].uid /\ scripts'[p].forced = scripts[p].forced
    BY <1>1, ScriptMoves DEF OldExec, Persists
  <2>2. scripts[p].uid <= Api.uid /\ scripts[p].uid \in Nat /\ Api.uid \in Nat
    BY <1>1, RebootTypes DEF RebootInv, UidsPast
  <2>3. Api'.uid # Api.uid + 1
    BY <2>1, <2>2
  <2>4. Api'.uid = Api.uid /\ Api.st.handled <= Api'.st.handled
    <3>1. CASE Api'.uid = Api.uid /\ Api'.st = Api.st
      BY <3>1, RebootTypes
    <3>2. CASE pc = "patch" /\ Api'.uid = Api.uid /\ Api'.st = next
      BY <3>2, CopyIsStored DEF RebootInv, RebootsRead, MidReconcile
    <3> QED
      BY <2>3, <3>1, <3>2, StatusMoves
  <2>5. scripts[p].forced <= Api.st.handled
    BY <1>1, <2>1, <2>4 DEF RebootInv, ForcedHandled
  <2>6. Api'.st.handled \in Nat
    BY TypeStep, RebootTypes, InHand, StatusMoves DEF NewStatus
  <2> QED
    BY <1>1, <2>1, <2>4, <2>5, <2>6, RebootTypes
<1>2. CASE p \notin DOMAIN scripts \/ ~scripts[p].rec
  <2>1. p \in DOMAIN scripts /\ Api'.st.handled = next.handled /\ scripts[p].forced <= next.handled
    BY <1>2, JustRecorded
  <2>2. scripts'[p].forced = scripts[p].forced
    BY <2>1, ScriptMoves DEF OldExec, Persists
  <2> QED
    BY <2>1, <2>2
<1> QED
  BY <1>1, <1>2

LEMMA OneApplyStep ==
    ASSUME TypeOK, StepInv, DateInv, RebootInv, [Next]_vars PROVE OneApplyPerReboot'
<1> SUFFICES ASSUME NEW p \in DOMAIN scripts', NEW q \in DOMAIN scripts',
                    scripts'[p].rec, scripts'[q].rec, scripts'[p].uid = scripts'[q].uid,
                    scripts'[p].forced > 0, scripts'[p].forced = scripts'[q].forced
             PROVE  p = q
  BY DEF OneApplyPerReboot
<1>1. \A x \in DOMAIN scripts : scripts'[x].uid = scripts[x].uid
                                /\ scripts'[x].forced = scripts[x].forced
  BY ScriptMoves DEF OldExec, Persists
\* x was recorded before, y is recorded now: y's reboot was not handled then.
<1>2. ASSUME NEW x \in DOMAIN scripts', NEW y \in DOMAIN scripts',
             x \in DOMAIN scripts, scripts[x].rec, scripts'[y].rec,
             y \notin DOMAIN scripts \/ ~scripts[y].rec,
             scripts'[x].uid = scripts'[y].uid, scripts'[y].forced > 0
      PROVE  scripts'[x].forced # scripts'[y].forced
  <2>1. /\ y \in DOMAIN scripts /\ scripts[y].uid = Api.uid
        /\ scripts[y].forced > 0 => Api.st.handled < scripts[y].forced
    BY <1>2, JustRecorded
  <2>2. scripts[x].uid = Api.uid
    BY <1>1, <1>2, <2>1
  <2>3. scripts[x].forced <= Api.st.handled
    BY <1>2, <2>2 DEF RebootInv, ForcedHandled
  <2>4. scripts[x].forced \in Nat /\ scripts[y].forced \in Nat /\ Api.st.handled \in Nat
    BY <1>2, <2>1, RebootTypes
  <2>5. scripts[y].forced > 0
    BY <1>1, <1>2, <2>1
  <2> QED
    BY <1>1, <1>2, <2>1, <2>3, <2>4, <2>5
<1>3. CASE /\ p \in DOMAIN scripts /\ scripts[p].rec
           /\ q \in DOMAIN scripts /\ scripts[q].rec
  BY <1>1, <1>3 DEF RebootInv, OneApplyPerReboot
<1>4. CASE /\ p \in DOMAIN scripts /\ scripts[p].rec
           /\ q \notin DOMAIN scripts \/ ~scripts[q].rec
  BY <1>2, <1>4
<1>5. CASE /\ p \notin DOMAIN scripts \/ ~scripts[p].rec
           /\ q \in DOMAIN scripts /\ scripts[q].rec
  BY <1>2, <1>5
<1>6. CASE /\ p \notin DOMAIN scripts \/ ~scripts[p].rec
           /\ q \notin DOMAIN scripts \/ ~scripts[q].rec
  BY <1>6, JustRecorded
<1> QED
  BY <1>3, <1>4, <1>5, <1>6

LEMMA RebootStep ==
    ASSUME TypeOK, StepInv, DateInv, RebootInv, [Next]_vars PROVE RebootInv'
BY UidsStep, RebootReadStep, ForcedHandledStep, ForcedSentStep, OneApplyStep DEF RebootInv

LEMMA RebootInvariant ==
    ASSUME CacheCurrent PROVE Spec => [](TypeOK /\ StepInv /\ DateInv /\ RebootInv)
<1>1. Init => TypeOK /\ StepInv /\ DateInv /\ RebootInv
  BY TypeInit, FaithfulInit, DateInit, RebootInit
<1>2. TypeOK /\ StepInv /\ DateInv /\ RebootInv /\ [Next]_vars
      => (TypeOK /\ StepInv /\ DateInv /\ RebootInv)'
  BY TypeStep, FaithfulStep, DateStep, RebootStep
<1> QED
  BY <1>1, <1>2, PTL DEF Spec

\* With a current cache, one reboot of the VM forces at most one re-apply whose
\* dispatch was recorded, however the sync, the reconciles and the faults interleave.
THEOREM RebootAppliesOnce == ASSUME CacheCurrent PROVE Spec => []OneApplyPerReboot
<1>1. RebootInv => OneApplyPerReboot
  BY DEF RebootInv
<1> QED
  BY <1>1, RebootInvariant, PTL

----------------------------------------------------------------------------
(* While all is calm, execs run one after the other *)

\* The daemon's registry has forgotten what an older operator left running.
NoLegacyDaemon == ~(Legacy /\ Provider = "daemon")

\* The exec in flight: the one recorded, or the one about to be.
Current == IF Sends THEN next.pid ELSE Api.st.pid

\* Only the exec in flight runs, and the provider answers for it; no patch gives up
\* one that runs, and no number was given out twice.
OnlyCurrent ==
    /\ \A p \in DOMAIN scripts : Unshared(scripts[p])
    /\ \A p \in DOMAIN scripts :
           scripts[p].st = "running" => p = Current /\ Watched(scripts[p])
    /\ (pc = "patch" /\ next.pid = 0 /\ snap.st.pid > 0) =>
           scripts[snap.st.pid].st # "running"

\* The router holds what the exec in flight committed, and what Applied=True names.
RouterHolds ==
    /\ (Current \in DOMAIN scripts /\ scripts[Current].st = "ok") =>
           router = [uid |-> scripts[Current].uid, gen |-> scripts[Current].gen]
    /\ (Api.st.applied.status = "True" /\ ~Sends) =>
           router = [uid |-> Api.uid, gen |-> Api.st.applied.gen]
    /\ (pc = "patch" /\ next.applied.status = "True") =>
           router = [uid |-> snap.uid, gen |-> next.applied.gen]

SerialInv == Calm => OnlyCurrent /\ RouterHolds

LEMMA SerialInit == ASSUME NoLegacyDaemon PROVE Init => SerialInv
<1> SUFFICES ASSUME Init PROVE OnlyCurrent /\ RouterHolds
  BY DEF SerialInv
<1>1. pc = "idle" /\ ~Sends /\ Current = Api.st.pid
  BY DEF Init, Sends, Current
<1>2. CASE stream = <<NewCfg(1)>> /\ scripts = <<>>
  <2>1. Api = NewCfg(1) /\ DOMAIN scripts = {}
    BY <1>2 DEF Api
  <2>2. Api.st.applied.status = "None"
    BY <2>1 DEF NewCfg, NewStatus
  <2> QED
    BY <1>1, <2>1, <2>2 DEF OnlyCurrent, RouterHolds
<1>3. CASE /\ Legacy /\ stream = <<LegacyCfg>>
           /\ scripts = <<[NewScript(1, 1, 0) EXCEPT
                              !.tracked = Provider # "daemon",
                              !.freed = Provider = "daemon", !.rec = TRUE]>>
  <2> DEFINE e == [NewScript(1, 1, 0) EXCEPT !.tracked = Provider # "daemon",
                                             !.freed = Provider = "daemon", !.rec = TRUE]
             l == [NewStatus EXCEPT !.phase = "Applying", !.pid = 1, !.obs = 1,
                      !.applied = [status |-> "False", gen |-> 1, why |-> "Applying"]]
  <2>1. Api.st = l
    BY <1>3 DEF Api, LegacyCfg, NewCfg
  <2>2. l.pid = 1 /\ l.applied.status = "False"
    BY DEF NewStatus
  <2>3. e.st = "running" /\ e.tracked /\ ~e.broken /\ ~e.freed /\ ~e.taken
    BY <1>3 DEF NewScript, NoLegacyDaemon
  <2>4. scripts = <<e>>
    BY <1>3
  <2> HIDE DEF e, l
  <2>5. DOMAIN scripts = {1} /\ scripts[1] = e
    BY <2>4
  <2> QED
    BY <1>1, <2>1, <2>2, <2>3, <2>5 DEF OnlyCurrent, RouterHolds, Watched, Unshared
<1> QED
  BY <1>2, <1>3 DEF Init

\* What is calm was calm before.
LEMMA CalmBefore ==
    ASSUME TypeOK, StepInv, RebootInv, [Next]_vars, Calm'
    PROVE  /\ Calm /\ faults' = faults
           /\ Api'.uid = Api.uid + 1 => DOMAIN scripts = {}
<1>1. faults \in Nat /\ faults' \in {faults, faults + 1}
  <2>1. faults \in Nat
    BY DEF TypeOK
  <2>2. CASE Controller
    BY <2>1, <2>2 DEF Controller, Reconcile, UpdateFinalizer, onChange, onChangeStopped,
       onChangeError, CheckReady, CheckReadyFails, Poll, PollRunning, PollExited, PollLost,
       PollError, Dispatch, SkipDone, applyConfig, applyConfigError, applyConfigUnreachable,
       Patch, PatchStatus, PatchStatusFails, PatchStatusAnswerLost, Fault
  <2>3. CASE Environment
    BY <2>1, <2>3 DEF Environment, Deliver, SpecUpdate, Delete, Recreate, Write, ScriptEnds,
       Finish, TimePasses, Elapse, VMStop, VMStart, TargetPoll, RebootPublish, AgentFails,
       OperatorRestart, OthersShare, NumberReused, ResultTaken, Fault
  <2> QED
    BY <2>1, <2>2, <2>3 DEF Next, vars
<1>2. faults = 0 /\ faults' = 0
  BY <1>1 DEF Calm
<1>3. ASSUME NEW p \in DOMAIN scripts
      PROVE  ~scripts[p].late /\ scripts[p].uid = Api.uid /\ Api'.uid # Api.uid + 1
  <2>1. p \in DOMAIN scripts' /\ Persists(scripts[p], scripts'[p])
    BY <1>3, ScriptMoves DEF OldExec
  <2>2. ~scripts'[p].late /\ scripts'[p].uid = Api'.uid
    BY <2>1 DEF Calm
  <2>3. scripts[p].uid <= Api.uid /\ scripts[p].uid \in Nat /\ Api.uid \in Nat
    BY <1>3, RebootTypes DEF RebootInv, UidsPast
  <2> QED
    BY <2>1, <2>2, <2>3, StatusMoves DEF Persists
<1> QED
  BY <1>2, <1>3 DEF Calm

\* While nothing fails, a pending patch waits or is stored, and its answer seen.
LEMMA CalmPatch ==
    ASSUME TypeOK, StepInv, [Next]_vars, pc = "patch", faults' = faults
    PROVE  \/ PatchStatus /\ Api'.st = next /\ Api'.uid = Api.uid /\ pc' # "patch"
           \/ UNCHANGED local
<1>1. Api.live
  BY DEF StepInv, MidReconcile
<1>2. ~PatchStatusFails /\ ~PatchStatusAnswerLost /\ ~OperatorRestart
  <2>1. faults \in Nat
    BY DEF TypeOK
  <2>2. PatchStatusFails \/ PatchStatusAnswerLost \/ OperatorRestart => faults' = faults + 1
    BY <1>1 DEF PatchStatusFails, PatchStatusAnswerLost, OperatorRestart, Fault
  <2> QED
    BY <2>1, <2>2
<1>3. CASE PatchStatus
  <2>1. Push(Patched)
    BY <1>3 DEF PatchStatus
  <2>2. pc' # "patch"
    BY <1>3 DEF PatchStatus, Return
  <2> QED
    BY <1>3, <2>1, <2>2, Stored, PatchedType, PushType
<1>4. CASE Controller /\ ~PatchStatus
  BY <1>2, <1>4 DEF Controller, Reconcile, UpdateFinalizer, onChange, onChangeStopped,
     onChangeError, CheckReady, CheckReadyFails, Poll, PollRunning, PollExited, PollLost,
     PollError, Dispatch, SkipDone, applyConfig, applyConfigError, applyConfigUnreachable, Patch
<1>5. CASE Environment
  BY <1>2, <1>5 DEF Environment, Deliver, SpecUpdate, Delete, Recreate, Write, ScriptEnds,
     Finish, TimePasses, Elapse, VMStop, VMStart, TargetPoll, RebootPublish, AgentFails,
     OthersShare, NumberReused, ResultTaken
<1>6. CASE UNCHANGED vars
  BY <1>6 DEF vars
<1> QED
  BY <1>3, <1>4, <1>5, <1>6 DEF Next

\* The router changes only when a running script ends.
LEMMA RouterMoves ==
    ASSUME [Next]_vars
    PROVE  \/ UNCHANGED router /\ ~ScriptEnds
           \/ /\ UNCHANGED <<local, stream>>
              /\ \E p \in DOMAIN scripts, end \in {"ok", "fail"} : Finish(p, end)
<1>1. CASE ScriptEnds
  BY <1>1 DEF ScriptEnds, Finish
<1>2. CASE Controller /\ ~ScriptEnds
  BY <1>2 DEF Controller, Reconcile, UpdateFinalizer, onChange, onChangeStopped,
     onChangeError, CheckReady, CheckReadyFails, Poll, PollRunning, PollExited, PollLost,
     PollError, Dispatch, SkipDone, applyConfig, applyConfigError, applyConfigUnreachable,
     Patch, PatchStatus, PatchStatusFails, PatchStatusAnswerLost, world
<1>3. CASE Environment /\ ~ScriptEnds
  BY <1>3 DEF Environment, Deliver, SpecUpdate, Delete, Recreate, Write, TimePasses, Elapse,
     VMStop, VMStart, TargetPoll, RebootPublish, AgentFails, OperatorRestart, OthersShare,
     NumberReused, ResultTaken, world
<1>4. CASE UNCHANGED vars /\ ~ScriptEnds
  BY <1>4 DEF vars, world
<1> QED
  BY <1>1, <1>2, <1>3, <1>4 DEF Next

CalmStep ==
    /\ TypeOK /\ StepInv /\ DateInv /\ RebootInv /\ OnlyCurrent /\ RouterHolds
    /\ Calm /\ [Next]_vars /\ faults' = faults

LEMMA OldRuns ==
    ASSUME CalmStep, NEW p \in DOMAIN scripts
    PROVE  /\ p \in DOMAIN scripts' /\ p \in Nat /\ p > 0
           /\ scripts'[p].uid = scripts[p].uid /\ scripts'[p].gen = scripts[p].gen
           /\ scripts'[p].st = "running" =>
                  scripts[p].st = "running" /\ p = Current /\ Watched(scripts'[p])
           /\ scripts'[p].st = "ok" => scripts[p].st = "ok" \/ ScriptEnds
           /\ Unshared(scripts'[p])
<1>1. OldExec(p) /\ faults' = faults
  BY ScriptMoves DEF CalmStep
<1>2. /\ scripts[p].st = "running" => p = Current /\ Watched(scripts[p])
      /\ Unshared(scripts[p]) /\ faults' # faults + 1
  BY DEF CalmStep, OnlyCurrent, TypeOK
<1>3. p \in Nat /\ p > 0
  BY DEF CalmStep, TypeOK
<1> QED
  BY <1>1, <1>2, <1>3 DEF OldExec, Persists

\* A status that says True has nothing in flight.
LEMMA TrueIsIdle ==
    ASSUME TypeOK, StepInv
    PROVE  /\ Api.st.applied.status = "True" => Api.st.pid = 0
           /\ pc = "patch" /\ next.applied.status = "True" => next.pid = 0
           /\ MidReconcile /\ snap.st.pid > 0 =>
                  /\ snap.st.applied.status # "True" /\ snap.st.pid \in DOMAIN scripts
                  /\ scripts[snap.st.pid].uid = snap.uid
                  /\ scripts[snap.st.pid].gen = snap.st.obs
<1>1. Api.st.pid \in Nat /\ next.pid \in Nat /\ snap.st.pid \in Nat
  BY InHand, RebootTypes DEF Statuses
<1> QED
  BY <1>1 DEF StepInv, Faithful

\* No exec starts but by a dispatch that is then sent.
LEMMA NoNewExec ==
    ASSUME CalmStep, NEW p \in DOMAIN scripts', p \notin DOMAIN scripts
    PROVE  /\ NewExec(p) /\ pc = "dispatchOrPoll" /\ pc' = "patch"
           /\ applyConfig \/ applyConfigUnreachable
           /\ scripts'[p].st = "running" => applyConfig
<1>1. NewExec(p) /\ faults' = faults /\ faults \in Nat
  BY ScriptMoves DEF CalmStep, TypeOK
<1>2. ~applyConfigError
  <2>1. applyConfigError => UNCHANGED scripts \/ faults' = faults + 1
    BY DEF applyConfigError, Fault
  <2> QED
    BY <1>1, <2>1
<1>3. applyConfigUnreachable => scripts'[p].st # "running"
  <2> SUFFICES ASSUME applyConfigUnreachable PROVE scripts'[p].st # "running"
    OBVIOUS
  <2> DEFINE y == NewScript(snap.uid, snap.gen, 0)
             a == Append(scripts, y)
             n == Len(scripts) + 1
  <2>1. y \in Scripts /\ scripts \in Seq(Scripts) /\ p = n
    BY <1>1, InHand, ScriptType DEF CalmStep, TypeOK, NewExec
  <2>2. scripts' = [a EXCEPT ![n].st = "dead", ![n].broken = TRUE]
    BY DEF applyConfigUnreachable, Start
  <2>3. n \in DOMAIN a /\ a[n] = y
    BY <2>1, AppendProperties
  <2>4. [y EXCEPT !.st = "dead", !.broken = TRUE].st = "dead"
    BY <2>1 DEF Scripts
  <2> HIDE DEF a, n, y
  <2>5. scripts'[n] = [y EXCEPT !.st = "dead", !.broken = TRUE]
    BY <2>2, <2>3
  <2> QED
    BY <2>1, <2>4, <2>5
<1> QED
  BY <1>1, <1>2, <1>3 DEF NewExec, applyConfig, applyConfigUnreachable, SendPatch

\* While all is calm no number is given out twice.
LEMMA StayUnshared ==
    ASSUME CalmStep PROVE \A p \in DOMAIN scripts' : Unshared(scripts'[p])
<1> TAKE p \in DOMAIN scripts'
<1>1. CASE p \in DOMAIN scripts
  BY <1>1, OldRuns
<1>2. CASE p \notin DOMAIN scripts
  BY <1>2, NoNewExec DEF NewExec
<1> QED
  BY <1>1, <1>2

\* A script ends.
LEMMA SerialEnd ==
    ASSUME CalmStep, UNCHANGED <<local, stream>>,
           NEW p \in DOMAIN scripts, NEW end \in {"ok", "fail"}, Finish(p, end)
    PROVE  OnlyCurrent' /\ RouterHolds'
<1>1. UNCHANGED <<pc, snap, next>> /\ Api' = Api
  BY DEF local, Api
<1>2. Current' = Current /\ (Sends' <=> Sends)
  BY <1>1 DEF Current, Sends
<1>3. p = Current /\ p > 0 /\ scripts[p].st = "running"
  BY OldRuns DEF CalmStep, OnlyCurrent, Finish
<1>4. DOMAIN scripts' = DOMAIN scripts
  BY DEF Finish
<1>5. Sends \/ (p = Api.st.pid /\ p \in DOMAIN scripts)
  BY <1>3 DEF Current
<1>6. OnlyCurrent'
  <2>1. \A q \in DOMAIN scripts' : scripts'[q].st = "running" =>
            q = Current' /\ Watched(scripts'[q])
    BY <1>2, <1>4, OldRuns
  <2>2. pc = "patch" /\ next.pid = 0 /\ snap.st.pid > 0 => scripts'[snap.st.pid].st # "running"
    BY OldRuns, TrueIsIdle DEF CalmStep, OnlyCurrent, MidReconcile
  <2> QED
    BY <1>1, <2>1, <2>2, StayUnshared DEF OnlyCurrent, Watched, Unshared
<1>7. RouterHolds'
  <2>1. scripts'[p].st = "ok" => router' = [uid |-> scripts'[p].uid, gen |-> scripts'[p].gen]
    <3>1. scripts[p] \in Scripts
      BY DEF CalmStep, TypeOK
    <3>2. scripts'[p].st = end /\ scripts'[p].uid = scripts[p].uid
          /\ scripts'[p].gen = scripts[p].gen
      BY <3>1 DEF Finish, Scripts
    <3> QED
      BY <3>2 DEF Finish
  <2>2. Api.st.applied.status = "True" => Sends
    BY <1>3, <1>5, TrueIsIdle DEF CalmStep
  <2>3. pc = "patch" => next.applied.status # "True"
    <3> SUFFICES ASSUME pc = "patch", next.applied.status = "True" PROVE FALSE
      OBVIOUS
    <3>1. next.pid = 0 /\ ~Sends /\ snap.st = Api.st
      BY TrueIsIdle, CopyIsStored DEF CalmStep, Sends, MidReconcile
    <3>2. snap.st.pid = p
      BY <1>5, <3>1
    <3> QED
      BY <1>3, <3>1, <3>2 DEF CalmStep, OnlyCurrent
  <2> QED
    BY <1>1, <1>2, <1>3, <2>1, <2>2, <2>3 DEF RouterHolds
<1> QED
  BY <1>6, <1>7

\* Nothing ends, and what is in flight stays.
LEMMA SerialQuiet ==
    ASSUME CalmStep, UNCHANGED router, ~ScriptEnds, Api'.uid = Api.uid, Api'.st = Api.st,
           UNCHANGED local \/ (pc # "patch" /\ pc' # "patch")
    PROVE  OnlyCurrent' /\ RouterHolds'
<1>1. Current' = Current /\ (Sends' <=> Sends)
  BY DEF Current, Sends, local
<1>2. ASSUME NEW p \in DOMAIN scripts' PROVE p \in DOMAIN scripts
  BY <1>2, NoNewExec DEF local
<1>3. pc' = "patch" => UNCHANGED <<pc, next, snap>>
  BY DEF local
<1>4. OnlyCurrent'
  <2>1. \A q \in DOMAIN scripts' : scripts'[q].st = "running" =>
            q = Current' /\ Watched(scripts'[q])
    BY <1>1, <1>2, OldRuns
  <2>2. pc = "patch" /\ next.pid = 0 /\ snap.st.pid > 0 => scripts'[snap.st.pid].st # "running"
    BY OldRuns, TrueIsIdle DEF CalmStep, OnlyCurrent, MidReconcile
  <2> QED
    BY <1>3, <2>1, <2>2, StayUnshared DEF OnlyCurrent, Watched, Unshared
<1>5. RouterHolds'
  <2>1. (Current \in DOMAIN scripts' /\ scripts'[Current].st = "ok") =>
           router' = [uid |-> scripts'[Current].uid, gen |-> scripts'[Current].gen]
    BY <1>2, OldRuns DEF CalmStep, RouterHolds
  <2>2. (Api.st.applied.status = "True" /\ ~Sends) =>
           router = [uid |-> Api.uid, gen |-> Api.st.applied.gen]
    BY DEF CalmStep, RouterHolds
  <2>3. (pc = "patch" /\ next.applied.status = "True") =>
           router = [uid |-> snap.uid, gen |-> next.applied.gen]
    BY DEF CalmStep, RouterHolds
  <2> QED
    BY <1>1, <1>3, <2>1, <2>2, <2>3 DEF RouterHolds
<1> QED
  BY <1>4, <1>5

\* The pending patch is stored.
LEMMA SerialStored ==
    ASSUME CalmStep, UNCHANGED router, ~ScriptEnds, pc = "patch", pc' # "patch",
           Api'.st = next, Api'.uid = Api.uid
    PROVE  OnlyCurrent' /\ RouterHolds'
<1>1. ~Sends' /\ Current' = next.pid /\ next.pid \in Nat /\ snap.st.pid \in Nat
      /\ snap.st = Api.st /\ snap.uid = Api.uid
  BY CopyIsStored, RebootTypes DEF CalmStep, Current, Sends, MidReconcile
<1>2. ASSUME NEW p \in DOMAIN scripts' PROVE p \in DOMAIN scripts
  BY <1>2, NoNewExec
<1>3. Current = next.pid \/ (next.pid = 0 /\ Current = snap.st.pid /\ ~Sends)
  BY <1>1 DEF Current, Sends
<1>4. ASSUME NEW p \in DOMAIN scripts', scripts'[p].st = "running"
      PROVE  p = next.pid /\ Watched(scripts'[p])
  <2>1. scripts[p].st = "running" /\ p = Current /\ Watched(scripts'[p]) /\ p > 0
    BY <1>2, <1>4, OldRuns
  <2>2. ~(next.pid = 0 /\ Current = snap.st.pid)
    BY <2>1 DEF CalmStep, OnlyCurrent
  <2> QED
    BY <1>3, <2>1, <2>2
<1>5. OnlyCurrent'
  BY <1>1, <1>4, StayUnshared DEF OnlyCurrent, Watched, Unshared
<1>6. (next.pid \in DOMAIN scripts' /\ scripts'[next.pid].st = "ok") =>
           router' = [uid |-> scripts'[next.pid].uid, gen |-> scripts'[next.pid].gen]
  <2> SUFFICES ASSUME next.pid \in DOMAIN scripts', scripts'[next.pid].st = "ok"
               PROVE  router' = [uid |-> scripts'[next.pid].uid, gen |-> scripts'[next.pid].gen]
    OBVIOUS
  <2>1. next.pid \in DOMAIN scripts /\ next.pid > 0
    BY <1>2, OldRuns
  <2>2. Current = next.pid
    BY <1>3, <2>1
  <2> QED
    BY <2>1, <2>2, OldRuns DEF CalmStep, RouterHolds
<1>7. next.applied.status = "True" => router' = [uid |-> Api.uid, gen |-> next.applied.gen]
  BY <1>1 DEF CalmStep, RouterHolds
<1>8. RouterHolds'
  BY <1>1, <1>6, <1>7 DEF RouterHolds
<1> QED
  BY <1>5, <1>8

\* A reconcile sends its patch: it gives up no exec that runs, and reports a
\* success only of what the router holds.
LEMMA SerialSends ==
    ASSUME CalmStep, UNCHANGED router, ~ScriptEnds, Proceeds, pc' = "patch"
    PROVE  OnlyCurrent' /\ RouterHolds'
<1>1. /\ TypeOK /\ StepInv /\ DateInv /\ RebootInv /\ [Next]_vars
      /\ OnlyCurrent /\ RouterHolds /\ Calm
      /\ MidReconcile /\ UNCHANGED <<snap, stream>> /\ Api' = Api
      /\ snap.st = Api.st /\ snap.uid = Api.uid
  BY CopyIsStored DEF CalmStep, Proceeds, Api
<1>2. ~Sends /\ Current = snap.st.pid
  BY <1>1 DEF Proceeds, Sends, Current
<1>3. snap.st.pid \in Nat /\ snap.st \in Statuses /\ next' \in Statuses /\ next'.pid \in Nat
  <2>1. TypeOK'
    BY <1>1, TypeStep
  <2>2. next' \in Statuses
    BY <2>1 DEF TypeOK
  <2> QED
    BY <1>1, <2>2, InHand DEF Statuses
<1>4. ~TimedOut(snap.st)
  <2>1. ASSUME snap.st.pid > 0, snap.st.started # 0 PROVE ~scripts[snap.st.started].late
    <3>1. snap.st.started = snap.st.pid
      BY <1>1, <2>1 DEF DateInv, Dated
    <3> QED
      BY <1>1, <2>1, <3>1, TrueIsIdle DEF Calm
  <2> QED
    BY <2>1 DEF TimedOut
\* The exec in flight, if any, runs on, and no other does.
<1>5. CASE snap.st.pid > 0
  <2> DEFINE c == snap.st.pid
  <2>1. /\ c \in DOMAIN scripts /\ scripts[c].uid = snap.uid /\ scripts[c].gen = snap.st.obs
        /\ snap.st.applied.status # "True"
    BY <1>1, <1>5, TrueIsIdle
  <2>0. ~scripts[c].taken
    BY <1>1, <2>1 DEF OnlyCurrent, Unshared
  <2>2. DOMAIN scripts' \subseteq DOMAIN scripts
    <3>1. ASSUME NEW p \in DOMAIN scripts', p \notin DOMAIN scripts PROVE FALSE
      <4>1. MustApply
        BY <3>1, NoNewExec DEF NewExec
      <4> QED
        BY <1>5, <4>1 DEF MustApply, NothingInFlight
    <3> QED
      BY <3>1
  <2>3. \/ /\ next'.pid = c /\ next'.applied.status # "True"
        \/ /\ next'.pid = 0 /\ scripts[c].st # "running"
           /\ next'.applied.status = "True" =>
                  next'.applied.gen = snap.st.obs /\ scripts[c].st = "ok"
    <3>1. CASE next' = [snap.st EXCEPT !.started = snap.st.pid]
      BY <1>3, <2>1, <3>1, StartedFields
    <3>2. CASE next' = NotReady(snap.st)
      <4>1. next'.pid = c /\ next'.applied = False(snap.st.obs, "NotReady")
        BY <1>3, <3>2, NotReadyFields
      <4> QED
        BY <4>1 DEF False
    <3>3. CASE next' = [snap.st EXCEPT !.phase = "Applying"]
      <4>1. next'.pid = c /\ next'.applied = snap.st.applied
        BY <1>3, <3>3 DEF Statuses
      <4> QED
        BY <2>1, <4>1
    <3>4. CASE PollExited /\ "ok" \in Answers(c) /\ next' = Applied(snap.st, snap.gen)
      <4>1. next'.pid = 0 /\ next'.applied = True(snap.st.obs)
        BY <1>3, <3>4, AppliedFields
      <4>2. next'.applied.gen = snap.st.obs /\ scripts[c].st = "ok"
        BY <2>0, <3>4, <4>1 DEF True, Answers
      <4> QED
        BY <4>1, <4>2
    <3>5. CASE PollExited /\ "fail" \in Answers(c) /\ next' = Failed(snap.st)
      <4>1. next'.pid = 0 /\ next'.applied = False(snap.st.obs, "Failed")
        BY <1>3, <3>5, FailedFields
      <4> QED
        BY <2>0, <3>5, <4>1 DEF False, Answers
    <3>6. CASE PollLost /\ next' = Lost(snap.st)
      <4>1. next'.pid = 0 /\ next'.applied = snap.st.applied
        BY <1>3, <3>6, LostFields
      <4>2. scripts[c].st # "running"
        BY <1>1, <2>1, <3>6 DEF PollLost, OnlyCurrent, Watched
      <4> QED
        BY <2>1, <4>1, <4>2
    <3>7. ~applyConfig /\ ~applyConfigUnreachable
      BY <1>5 DEF applyConfig, applyConfigUnreachable, MustApply, NothingInFlight
    <3> QED
      BY <1>1, <1>4, <3>1, <3>2, <3>3, <3>4, <3>5, <3>6, <3>7, SentMoves
  <2>4. ~Sends' /\ Current' = c
    BY <1>1, <1>3, <2>3 DEF Sends, Current
  <2>5. OnlyCurrent'
    <3>1. \A q \in DOMAIN scripts' : scripts'[q].st = "running" =>
              q = c /\ Watched(scripts'[q])
      BY <1>2, <2>2, OldRuns
    <3>2. next'.pid = 0 => scripts'[c].st # "running"
      BY <1>5, <2>1, <2>3, OldRuns
    <3> QED
      BY <1>1, <2>4, <3>1, <3>2, StayUnshared DEF OnlyCurrent, Watched, Unshared
  <2>6. RouterHolds'
    <3>1. scripts'[c].st = "ok" =>
             router' = [uid |-> scripts'[c].uid, gen |-> scripts'[c].gen]
      BY <1>1, <1>2, <2>1, OldRuns DEF RouterHolds
    <3>2. Api.st.applied.status # "True"
      BY <1>1, <2>1
    <3>3. next'.applied.status = "True" =>
             router' = [uid |-> snap.uid, gen |-> next'.applied.gen]
      BY <1>1, <1>2, <1>5, <2>1, <2>3 DEF RouterHolds
    <3> QED
      BY <1>1, <2>4, <3>1, <3>2, <3>3 DEF RouterHolds
  <2> QED
    BY <2>5, <2>6
\* Nothing is in flight: what runs now was just dispatched.
<1>6. CASE snap.st.pid = 0
  <2>1. \A p \in DOMAIN scripts : scripts'[p].st # "running"
    BY <1>2, <1>6, OldRuns
  <2>2. \A p \in DOMAIN scripts' : p \in DOMAIN scripts \/ p = Len(scripts) + 1
    BY <1>1, ScriptMoves DEF NewExec
  <2>3. CASE /\ applyConfig \/ applyConfigUnreachable
             /\ next'.pid = Len(scripts) + 1
             /\ next' = Dispatched(snap.st, Len(scripts) + 1, snap.gen, reboot)
    <3> DEFINE n == Len(scripts) + 1
    <3>1. n \in Nat /\ n > 0 /\ n \notin DOMAIN scripts
      BY <1>1 DEF TypeOK
    <3>2. Sends' /\ Current' = n
      BY <1>1, <1>6, <2>3, <3>1 DEF Sends, Current
    <3>3. ASSUME n \in DOMAIN scripts'
          PROVE  Watched(scripts'[n]) /\ scripts'[n].st # "ok"
      BY <3>1, <3>3, NoNewExec DEF NewExec
    <3>4. next'.applied.status = "False"
      <4>1. next'.applied = False(snap.gen, "Applying")
        BY <1>3, <2>3 DEF Dispatched, Statuses
      <4> QED
        BY <4>1 DEF False
    <3>5. OnlyCurrent'
      <4>1. \A q \in DOMAIN scripts' : scripts'[q].st = "running" =>
                q = n /\ Watched(scripts'[q])
        BY <2>1, <2>2, <3>3
      <4> QED
        BY <2>3, <3>1, <3>2, <4>1, StayUnshared DEF OnlyCurrent, Watched, Unshared
    <3>6. RouterHolds'
      BY <3>2, <3>3, <3>4 DEF RouterHolds
    <3> QED
      BY <3>5, <3>6
  <2>4. CASE CheckReadyFails /\ next' = NotReady(snap.st)
    <3>1. next'.pid = 0 /\ next'.applied = False(snap.st.obs, "NotReady")
      BY <1>3, <1>6, <2>4, NotReadyFields
    <3>2. next'.applied.status # "True"
      BY <3>1 DEF False
    <3>3. ~Sends' /\ Current' = 0
      BY <1>1, <1>6, <3>1 DEF Sends, Current
    <3>4. UNCHANGED scripts /\ 0 \notin DOMAIN scripts
      BY <1>1, <2>4 DEF CheckReadyFails, world, TypeOK
    <3>5. OnlyCurrent'
      BY <1>1, <1>6, <2>1, <3>4, StayUnshared DEF OnlyCurrent, Unshared
    <3>6. RouterHolds'
      BY <1>1, <1>2, <3>2, <3>3, <3>4 DEF RouterHolds
    <3> QED
      BY <3>5, <3>6
  <2>5. \/ CheckReadyFails /\ next' = NotReady(snap.st)
        \/ /\ applyConfig \/ applyConfigUnreachable
           /\ next' = Dispatched(snap.st, Len(scripts) + 1, snap.gen, reboot)
    BY <1>1, <1>4, <1>6, SentMoves DEF NeedsStart, PollRunning, PollExited, PollLost
  <2>6. applyConfig \/ applyConfigUnreachable => next'.pid = Len(scripts) + 1
    <3> SUFFICES ASSUME applyConfig \/ applyConfigUnreachable
                 PROVE  next'.pid = Len(scripts) + 1
      OBVIOUS
    <3>1. next' = Dispatched(snap.st, Len(scripts) + 1, snap.gen, reboot)
      BY DEF applyConfig, applyConfigUnreachable, SendPatch
    <3> QED
      BY <1>3, <3>1 DEF Dispatched, Statuses
  <2> QED
    BY <2>3, <2>4, <2>5, <2>6
<1> QED
  BY <1>3, <1>5, <1>6

LEMMA SerialStep ==
    ASSUME TypeOK, StepInv, DateInv, RebootInv, SerialInv, [Next]_vars PROVE SerialInv'
<1> SUFFICES ASSUME Calm' PROVE OnlyCurrent' /\ RouterHolds'
  BY DEF SerialInv
<1>1. /\ CalmStep
      /\ Api'.uid = Api.uid + 1 => DOMAIN scripts = {}
  BY CalmBefore DEF CalmStep, SerialInv
<1>2. CASE UNCHANGED <<local, stream>>
           /\ \E p \in DOMAIN scripts, end \in {"ok", "fail"} : Finish(p, end)
  BY <1>1, <1>2, SerialEnd
<1>3. CASE UNCHANGED router /\ ~ScriptEnds
  <2>1. CASE pc = "patch"
    <3>1. CASE PatchStatus /\ Api'.st = next /\ Api'.uid = Api.uid /\ pc' # "patch"
      BY <1>1, <1>3, <2>1, <3>1, SerialStored
    <3>2. CASE UNCHANGED local
      <4>1. Api'.uid = Api.uid /\ Api'.st = Api.st
        BY <2>1, <3>2, StatusMoves DEF MidReconcile, PatchStatus, PatchStatusAnswerLost,
           Return, local
      <4> QED
        BY <1>1, <1>3, <3>2, <4>1, SerialQuiet
    <3> QED
      BY <1>1, <2>1, <3>1, <3>2, CalmPatch DEF CalmStep
  <2>2. CASE pc # "patch" /\ pc' = "patch"
    <3>1. Proceeds
      BY <2>2, PendingMoves
    <3> QED
      BY <1>1, <1>3, <2>2, <3>1, SerialSends
  <2>3. CASE pc # "patch" /\ pc' # "patch"
    <3>1. CASE Api'.uid = Api.uid /\ Api'.st = Api.st
      BY <1>1, <1>3, <2>3, <3>1, SerialQuiet
    <3>2. CASE ~MidReconcile /\ UNCHANGED local /\ Api'.uid = Api.uid + 1 /\ Api'.st = NewStatus
      <4>1. DOMAIN scripts' = {}
        <5>1. ASSUME NEW p \in DOMAIN scripts' PROVE FALSE
          <6>1. pc = "dispatchOrPoll"
            BY <1>1, <3>2, <5>1, NoNewExec
          <6> QED
            BY <3>2, <6>1 DEF MidReconcile
        <5> QED
          BY <5>1
      <4>2. NewStatus.applied.status # "True"
        BY DEF NewStatus
      <4> QED
        BY <2>3, <3>2, <4>1, <4>2 DEF OnlyCurrent, RouterHolds
    <3> QED
      BY <2>3, <3>1, <3>2, StatusMoves
  <2> QED
    BY <2>1, <2>2, <2>3
<1> QED
  BY <1>2, <1>3, RouterMoves

LEMMA SerialInvariant ==
    ASSUME CacheCurrent, NoLegacyDaemon PROVE Spec => [](TypeOK /\ SerialInv)
<1> DEFINE I == TypeOK /\ StepInv /\ DateInv /\ RebootInv /\ SerialInv
<1>1. Init => I
  BY TypeInit, FaithfulInit, DateInit, RebootInit, SerialInit
<1>2. I /\ [Next]_vars => I'
  BY TypeStep, FaithfulStep, DateStep, RebootStep, SerialStep
<1>3. I => TypeOK /\ SerialInv
  OBVIOUS
<1> HIDE DEF I
<1> QED
  BY <1>1, <1>2, <1>3, PTL DEF Spec

\* With a current cache and no exec that an older operator's daemon registry has
\* forgotten: while no call fails, nothing restarts and no exec outlives its timeout,
\* scripts run one after the other, and Applied=True names what the router holds.
THEOREM CalmSerial == ASSUME CacheCurrent, NoLegacyDaemon PROVE Spec => []CalmIsSerial
<1>1. TypeOK /\ SerialInv => CalmIsSerial
  <2> SUFFICES ASSUME TypeOK, Calm, OnlyCurrent, RouterHolds
               PROVE  /\ AtMostOneRunning
                      /\ (pc = "idle" /\ Api.live /\ Api.st.applied.status = "True") =>
                             router = [uid |-> Api.uid, gen |-> Api.st.applied.gen]
    BY DEF SerialInv, CalmIsSerial
  <2> DEFINE R == {p \in DOMAIN scripts : scripts[p].st = "running"}
  <2>1. R \subseteq {Current}
    BY DEF OnlyCurrent
  <2>2. IsFiniteSet({Current}) /\ Cardinality({Current}) = 1
    BY FS_Singleton
  <2>3. IsFiniteSet(R) /\ Cardinality(R) <= Cardinality({Current})
    BY <2>1, <2>2, FS_Subset
  <2>4. Cardinality(R) <= 1
    BY <2>2, <2>3
  <2>5. AtMostOneRunning
    BY <2>4 DEF AtMostOneRunning
  <2>6. pc = "idle" => ~Sends
    BY DEF Sends
  <2> QED
    BY <2>5, <2>6 DEF RouterHolds
<1> QED
  BY <1>1, SerialInvariant, PTL

=============================================================================
