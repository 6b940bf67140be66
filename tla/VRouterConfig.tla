--------------------------- MODULE VRouterConfig ---------------------------
(***************************************************************************)
(* One VRouterConfig object and the controller that applies it to its      *)
(* router (internal/controller/vrouterconfig_controller.go), together with *)
(* what that controller touches: the API server's object, the informer     *)
(* cache it reads, the work queue, the provider's execs inside the guest,  *)
(* and the status its VRouterTarget publishes.                             *)
(*                                                                         *)
(* A reconcile is several steps - read, probe, poll or dispatch, patch -   *)
(* and everything else may happen between two of them.  The work queue     *)
(* never runs two reconciles of one object at once, so one program counter *)
(* is enough.                                                              *)
(*                                                                         *)
(* A status patch is a merge patch: it carries only the fields that differ *)
(* from the copy the reconcile started from, has no resourceVersion        *)
(* precondition, and is applied to whatever the API server holds by then.  *)
(***************************************************************************)
EXTENDS Integers, Sequences, FiniteSets

CONSTANTS
    Provider,    \* "kubevirt", "proxmox" or "daemon"
    MaxLag,      \* how many versions the informer cache may be behind
    Faults,      \* the kinds of fault that may happen (see FaultKinds)
    MayHang,     \* whether a script may outlive execApplyTimeout
    Legacy,      \* whether the object may predate status.execStartedTime
    MaxFaults,   \* bound: faults in a behaviour
    MaxGen,      \* bound: metadata.generation
    MaxUid,      \* bound: incarnations of the object
    MaxBoots,    \* bound: times the VM starts again
    MaxScripts   \* bound: execs dispatched

FaultKinds == {"patch",      \* a status patch fails, or its answer is lost
               "exec",       \* ExecScript fails, before or after the script starts
               "probe",      \* IsVMRunning, CheckReady or GetExecStatus fails
               "agent",      \* the guest agent forgets its pids; the daemon's call breaks
               "operator"}   \* the operator restarts, or once did, see ResultTaken

ASSUME ProviderAssumption == Provider \in {"kubevirt", "proxmox", "daemon"}
ASSUME FaultsAssumption == Faults \subseteq FaultKinds
ASSUME FlagsAssumption == MayHang \in BOOLEAN /\ Legacy \in BOOLEAN
ASSUME BoundsAssumption ==
    /\ MaxLag \in Nat /\ MaxFaults \in Nat /\ MaxBoots \in Nat
    /\ MaxGen \in Nat \ {0} /\ MaxUid \in Nat \ {0} /\ MaxScripts \in Nat \ {0}

VARIABLES
    stream,    \* versions of the object from the cached one to the API server's
    queued,    \* the object's key is in the work queue, or will be put there
    pc,        \* where the reconcile is; "idle" when none runs
    snap,      \* the reconcile's in-memory object, the base of its patches
    next,      \* the status the pending patch wants
    ret,       \* what follows the pending patch: "done", "requeue", "checkReady"
    reboot,    \* the target's lastRebootTime, as the reconcile read it
    scripts,   \* execs in the order they started; the index is the exec handle
    router,    \* the incarnation and generation the router last committed
    vmUp,      \* the provider says the VM is running
    boots,     \* times the VM has started again
    target,    \* the VRouterTarget's status: vmRunning and lastRebootTime
    faults     \* faults so far

local == <<pc, snap, next, ret, reboot>>
world == <<scripts, router, vmUp, boots, target>>
vars == <<stream, queued, local, world, faults>>

----------------------------------------------------------------------------
(* Data *)

Phases == {"Pending", "Applying", "Applied", "Failed"}
Conds == [status : {"None", "False", "True"}, gen : Nat,
          why : {"None", "Applying", "Failed", "NotReady", "Applied"}]  \* its reason
Statuses == [phase : Phases, pid : Nat, started : Nat, obs : Nat,
             handled : Nat, applied : Conds]
Versions == [uid : Nat, live : BOOLEAN, gen : Nat, del : BOOLEAN,
             fin : BOOLEAN, st : Statuses]
Scripts == [uid : Nat, gen : Nat, st : {"running", "ok", "fail", "dead"},
            tracked : BOOLEAN,  \* the provider has an entry for the handle
            freed : BOOLEAN,    \* the process that gave the handle is gone
            taken : BOOLEAN,    \* a later one gave it to another config's call
            broken : BOOLEAN,   \* the daemon's ApplyConfig call ended in an error
            rec : BOOLEAN,      \* the handle reached status.execPID
            late : BOOLEAN,     \* execApplyTimeout passed since execStartedTime
            forced : Nat]       \* the reboot that alone forced it, else 0

\* execStartedTime is the handle whose dispatch it dates; 0 is unset.
NewStatus == [phase |-> "Pending", pid |-> 0, started |-> 0, obs |-> 0,
              handled |-> 0, applied |-> [status |-> "None", gen |-> 0, why |-> "None"]]

NewCfg(u) == [uid |-> u, live |-> TRUE, gen |-> 1, del |-> FALSE,
              fin |-> FALSE, st |-> NewStatus]

\* An apply that an operator without execStartedTime left running.
LegacyCfg == [NewCfg(1) EXCEPT !.fin = TRUE,
    !.st = [NewStatus EXCEPT !.phase = "Applying", !.pid = 1, !.obs = 1,
                             !.applied = [status |-> "False", gen |-> 1, why |-> "Applying"]]]

NewScript(u, g, r) == [uid |-> u, gen |-> g, st |-> "running", tracked |-> TRUE,
                       freed |-> FALSE, taken |-> FALSE, broken |-> FALSE,
                       rec |-> FALSE, late |-> FALSE, forced |-> r]

Cache == Head(stream)
Api == stream[Len(stream)]

\* A write of the object; the oldest cached version goes when the lag is full.
Push(v) == stream' = IF v = Api THEN stream
                     ELSE IF Len(stream) > MaxLag THEN Append(Tail(stream), v)
                     ELSE Append(stream, v)
Delivers(v) == v # Api /\ Len(stream) > MaxLag

\* Mutant of MergePatch: the whole status is sent, as an Update would.
MergePatchReplaces(old, base, new) == new

\* client.MergeFrom(base) and Status().Patch: only what changed is sent.
Merge(old, base, new) == IF new = base THEN old ELSE new
MergePatch(old, base, new) ==
    [phase   |-> Merge(old.phase, base.phase, new.phase),
     pid     |-> Merge(old.pid, base.pid, new.pid),
     started |-> Merge(old.started, base.started, new.started),
     obs     |-> Merge(old.obs, base.obs, new.obs),
     handled |-> Merge(old.handled, base.handled, new.handled),
     applied |-> Merge(old.applied, base.applied, new.applied)]

\* The reconcile returns; again: an error or RequeueAfter brings it back.
Return(again) ==
    /\ pc' = "idle" /\ snap' = NewCfg(1) /\ next' = NewStatus
    /\ ret' = "done" /\ reboot' = 0
    /\ queued' = (queued \/ again)

Fault(kind) == kind \in Faults /\ faults < MaxFaults /\ faults' = faults + 1

\* Status().Patch is about to be sent; then says what follows its answer.
SendPatch(st, then) ==
    /\ pc' = "patch" /\ next' = st /\ ret' = then
    /\ UNCHANGED <<snap, reboot, queued, stream>>

\* Mutant of TimedOut: no bound on an in-flight exec.
TimedOutNever(st) == FALSE
TimedOut(st) == st.pid > 0 /\ st.started # 0 /\ scripts[st.started].late

shouldForceReapplyForReboot(handled, last) == handled < last

----------------------------------------------------------------------------
(* The statuses the reconcile writes *)

False(g, reason) == [status |-> "False", gen |-> g, why |-> reason]
True(g) == [status |-> "True", gen |-> g, why |-> "Applied"]

\* Mutants of Failed: the start time survives; a phase outside the CRD's enum.
FailedKeepsClock(st) == [st EXCEPT !.pid = 0, !.phase = "Failed",
                                   !.applied = False(st.obs, "Failed")]
FailedNewPhase(st) == [st EXCEPT !.pid = 0, !.started = 0, !.phase = "TimedOut",
                                 !.applied = False(st.obs, "Failed")]
Failed(st) == [st EXCEPT !.pid = 0, !.started = 0, !.phase = "Failed",
                         !.applied = False(st.obs, "Failed")]

\* Mutant of NotReady: the condition keeps saying True.
NotReadyKeepsTrue(st) == [st EXCEPT !.phase = "Pending"]
NotReady(st) == [st EXCEPT !.phase = "Pending", !.applied = False(st.obs, "NotReady")]

Lost(st) == [st EXCEPT !.pid = 0, !.started = 0, !.phase = "Pending"]

\* Mutant of Applied: the condition is stamped with the current generation.
AppliedCurrent(st, g) == [st EXCEPT !.pid = 0, !.started = 0, !.phase = "Applied",
                                    !.applied = True(g)]
Applied(st, g) == [st EXCEPT !.pid = 0, !.started = 0, !.phase = "Applied",
                             !.applied = True(st.obs)]

\* Mutants of Dispatched: observedGeneration, or the reboot, is left for later.
DispatchedKeepsObs(st, p, g, r) ==
    [st EXCEPT !.pid = p, !.started = p, !.phase = "Applying", !.handled = r,
               !.applied = False(g, "Applying")]
DispatchedKeepsHandled(st, p, g, r) ==
    [st EXCEPT !.pid = p, !.started = p, !.phase = "Applying", !.obs = g,
               !.applied = False(g, "Applying")]
Dispatched(st, p, g, r) ==
    [st EXCEPT !.pid = p, !.started = p, !.phase = "Applying", !.obs = g,
               !.handled = r, !.applied = False(g, "Applying")]

----------------------------------------------------------------------------
(* The reconcile *)

Init ==
    /\ \/ stream = <<NewCfg(1)>> /\ scripts = <<>>
       \/ /\ Legacy
          /\ stream = <<LegacyCfg>>
          /\ scripts = <<[NewScript(1, 1, 0) EXCEPT
                              !.tracked = Provider # "daemon",
                              !.freed = Provider = "daemon", !.rec = TRUE]>>
    /\ queued = TRUE
    /\ pc = "idle" /\ snap = NewCfg(1) /\ next = NewStatus
    /\ ret = "done" /\ reboot = 0
    /\ router = [uid |-> 0, gen |-> 0]
    /\ vmUp = TRUE /\ boots = 0
    /\ target = [vmRunning |-> TRUE, reboot |-> 0]
    /\ faults = 0

\* Mutant of Branch: the finalizer is not waited for.
BranchNoFinalizer(c) == IF c.del THEN "onDelete" ELSE "onChange"
Branch(c) == IF c.del THEN "onDelete" ELSE IF ~c.fin THEN "addFinalizer" ELSE "onChange"

\* Reconcile: read the object from the cache and pick the branch.
Reconcile ==
    /\ pc = "idle" /\ queued
    /\ queued' = FALSE
    /\ \/ ~Cache.live /\ UNCHANGED local
       \/ /\ Cache.live
          /\ snap' = Cache
          /\ pc' = Branch(Cache)
          /\ UNCHANGED <<next, ret, reboot>>
    /\ UNCHANGED <<stream, world, faults>>

\* r.Update with the finalizer added or removed: refused unless the copy read
\* is still the stored one.  Removing the finalizer of a deleted object ends it.
UpdateFinalizer ==
    /\ pc \in {"addFinalizer", "onDelete"}
    /\ LET v == [snap EXCEPT !.fin = ~snap.del, !.live = ~snap.del]
       IN IF snap = Api
          THEN /\ Push(v)
               /\ Return(Delivers(v) \/ pc = "addFinalizer")
          ELSE UNCHANGED stream /\ Return(TRUE)
    /\ UNCHANGED <<world, faults>>

\* Mutant of NeedsStart: an exec without a start time never gets one.
NeedsStartNever(st) == FALSE
NeedsStart(st) == st.pid > 0 /\ st.started = 0

\* onChange up to IsVMRunning, and stampExecStartedTimeIfMissing after it.
onChange ==
    /\ pc = "onChange" /\ vmUp
    /\ reboot' = target.reboot
    /\ IF NeedsStart(snap.st)
       THEN /\ pc' = "patch" /\ next' = [snap.st EXCEPT !.started = snap.st.pid]
            /\ ret' = "checkReady"
       ELSE pc' = "checkReady" /\ UNCHANGED <<next, ret>>
    /\ UNCHANGED <<stream, queued, snap, world, faults>>

\* The VM is stopped: return without a requeue.
onChangeStopped ==
    /\ pc = "onChange" /\ ~vmUp
    /\ Return(FALSE)
    /\ UNCHANGED <<stream, world, faults>>

\* Fetching the target, building the provider or IsVMRunning fails.
onChangeError ==
    /\ pc = "onChange" /\ Fault("probe")
    /\ Return(TRUE)
    /\ UNCHANGED <<stream, world>>

CheckReady ==
    /\ pc = "checkReady" /\ vmUp
    /\ pc' = "dispatchOrPoll"
    /\ UNCHANGED <<stream, queued, snap, next, ret, reboot, world, faults>>

\* handleCheckReadyFailure, with handleRouterNotReady inlined.
CheckReadyFails ==
    /\ pc = "checkReady"
    /\ IF vmUp THEN Fault("probe") /\ Provider # "daemon" ELSE UNCHANGED faults
    /\ IF TimedOut(snap.st)
       THEN SendPatch(Failed(snap.st), "done")
       ELSE IF snap.st.phase = "Applied"
       THEN SendPatch(NotReady(snap.st), "requeue")
       ELSE Return(TRUE) /\ UNCHANGED stream
    /\ UNCHANGED world

\* pollExecStatus: what GetExecStatus(status.execPID) answers.  Both the daemon
\* provider and the guest agent forget an exec whose end they have reported; the
\* daemon provider answers from its own memory.  For a number that has been given
\* out again it answers with whatever the other config's call has come to.
Reachable == vmUp \/ Provider = "daemon"
Answers(p) == IF ~scripts[p].tracked THEN {}
              ELSE IF scripts[p].taken THEN {"running", "ok", "fail", "broken"}
              ELSE IF scripts[p].broken THEN {"broken"}
              ELSE {scripts[p].st}

PollRunning ==
    /\ pc = "dispatchOrPoll" /\ snap.st.pid > 0 /\ Reachable
    /\ "running" \in Answers(snap.st.pid)
    /\ IF TimedOut(snap.st)
       THEN SendPatch(Failed(snap.st), "done")
       ELSE SendPatch([snap.st EXCEPT !.phase = "Applying"], "requeue")
    /\ UNCHANGED <<world, faults>>

\* Mutant of ExitedOk: the exit code alone, which hides a failed set.
ExitedOkCode(end) == end \in {"ok", "fail"}
ExitedOk(end) == end = "ok"

PollExited ==
    /\ pc = "dispatchOrPoll" /\ snap.st.pid > 0 /\ Reachable
    /\ \E end \in Answers(snap.st.pid) \cap {"ok", "fail"} :
           SendPatch(IF ExitedOk(end)
                     THEN Applied(snap.st, snap.gen) ELSE Failed(snap.st), "done")
    /\ scripts' = [scripts EXCEPT ![snap.st.pid].tracked = FALSE]
    /\ UNCHANGED <<router, vmUp, boots, target, faults>>

\* Only the daemon provider can tell a lost handle from any other error.
PollLost ==
    /\ pc = "dispatchOrPoll" /\ snap.st.pid > 0
    /\ Provider = "daemon" /\ ~scripts[snap.st.pid].tracked
    /\ SendPatch(Lost(snap.st), "requeue")
    /\ UNCHANGED <<world, faults>>

\* Any other error.  The daemon's entry of a broken call is gone once reported.
PollError ==
    /\ pc = "dispatchOrPoll" /\ snap.st.pid > 0
    /\ \/ Provider # "daemon" /\ (~vmUp \/ ~scripts[snap.st.pid].tracked)
          /\ UNCHANGED <<scripts, faults>>
       \/ Provider # "daemon" /\ Fault("probe") /\ UNCHANGED scripts
       \/ /\ Provider = "daemon" /\ "broken" \in Answers(snap.st.pid)
          /\ scripts' = [scripts EXCEPT ![snap.st.pid].tracked = FALSE]
          /\ UNCHANGED faults
    /\ IF TimedOut(snap.st)
       THEN SendPatch(Failed(snap.st), "done")
       ELSE Return(TRUE) /\ UNCHANGED stream
    /\ UNCHANGED <<router, vmUp, boots, target>>

\* Mutant of NothingInFlight: dispatch without looking at execPID.
NothingInFlightUnchecked == TRUE
NothingInFlight == snap.st.pid = 0
Forced == shouldForceReapplyForReboot(snap.st.handled, reboot)
ConclusivelyDone == snap.gen = snap.st.obs /\ snap.st.phase \in {"Applied", "Failed"}

MustApply == NothingInFlight /\ (~ConclusivelyDone \/ Forced)

\* dispatchOrPoll: nothing in flight and this generation is done.
SkipDone ==
    /\ pc = "dispatchOrPoll" /\ NothingInFlight /\ ConclusivelyDone /\ ~Forced
    /\ Return(FALSE)
    /\ UNCHANGED <<stream, world, faults>>

Start(r) == Append(scripts, NewScript(snap.uid, snap.gen, r))

\* applyConfig: ExecScript first, then one patch that records the dispatch.
applyConfig ==
    /\ pc = "dispatchOrPoll" /\ MustApply
    /\ vmUp /\ Len(scripts) < MaxScripts
    /\ scripts' = Start(IF ConclusivelyDone THEN reboot ELSE 0)
    /\ SendPatch(Dispatched(snap.st, Len(scripts) + 1, snap.gen, reboot), "requeue")
    /\ UNCHANGED <<router, vmUp, boots, target, faults>>

\* ExecScript returns an error; the script may have started all the same.  The
\* daemon provider never fails here: the RPC runs in the background.
applyConfigError ==
    /\ pc = "dispatchOrPoll" /\ MustApply
    /\ Provider # "daemon"
    /\ \/ ~vmUp /\ UNCHANGED <<scripts, faults>>
       \/ vmUp /\ Fault("exec")
          /\ \/ UNCHANGED scripts
             \/ Len(scripts) < MaxScripts /\ scripts' = Start(0)
    /\ Return(TRUE)
    /\ UNCHANGED <<stream, router, vmUp, boots, target>>

\* The daemon's goroutine calls an agent that is gone: the call ends in error.
applyConfigUnreachable ==
    /\ pc = "dispatchOrPoll" /\ MustApply
    /\ Provider = "daemon" /\ ~vmUp /\ Len(scripts) < MaxScripts
    /\ scripts' = [Start(0) EXCEPT ![Len(scripts) + 1].st = "dead",
                                ![Len(scripts) + 1].broken = TRUE]
    /\ SendPatch(Dispatched(snap.st, Len(scripts) + 1, snap.gen, reboot), "requeue")
    /\ UNCHANGED <<router, vmUp, boots, target, faults>>

Patched == [Api EXCEPT !.st = MergePatch(Api.st, snap.st, next)]
Recorded == IF next.pid # snap.st.pid /\ next.pid > 0
            THEN [scripts EXCEPT ![next.pid].rec = TRUE] ELSE scripts

\* The patch reaches the API server, and the answer reaches the reconcile.  The
\* answer replaces the in-memory object, generation included.
PatchStatus ==
    /\ pc = "patch" /\ Api.live
    /\ Push(Patched)
    /\ scripts' = Recorded
    /\ IF ret = "checkReady"
       THEN /\ pc' = "checkReady" /\ snap' = Patched
            /\ queued' = (queued \/ Delivers(Patched))
            /\ UNCHANGED <<next, ret, reboot>>
       ELSE Return(ret = "requeue" \/ Delivers(Patched))
    /\ UNCHANGED <<router, vmUp, boots, target, faults>>

\* The patch fails: the object is gone, or the API server or network fails it.
PatchStatusFails ==
    /\ pc = "patch"
    /\ IF Api.live THEN Fault("patch") ELSE UNCHANGED faults
    /\ Return(TRUE)
    /\ UNCHANGED <<stream, world>>

\* The patch is applied but the reconcile sees an error.
PatchStatusAnswerLost ==
    /\ pc = "patch" /\ Api.live /\ Fault("patch")
    /\ Push(Patched)
    /\ scripts' = Recorded
    /\ Return(TRUE)
    /\ UNCHANGED <<router, vmUp, boots, target>>

----------------------------------------------------------------------------
(* Everything around the reconcile *)

\* The informer receives the next version of the object and enqueues it.
Deliver ==
    /\ Len(stream) > 1
    /\ stream' = Tail(stream) /\ queued' = TRUE
    /\ UNCHANGED <<local, world, faults>>

\* A write by somebody else: the binding controller, or kubectl.
Write(v) ==
    /\ Push(v)
    /\ queued' = (queued \/ Delivers(v))
    /\ UNCHANGED <<local, world, faults>>

SpecUpdate == Api.live /\ ~Api.del /\ Api.gen < MaxGen
              /\ Write([Api EXCEPT !.gen = @ + 1])

Delete == Api.live /\ ~Api.del
          /\ Write(IF Api.fin THEN [Api EXCEPT !.del = TRUE]
                   ELSE [Api EXCEPT !.live = FALSE])

Recreate == ~Api.live /\ Api.uid < MaxUid /\ Write(NewCfg(Api.uid + 1))

\* A script ends.  One that fails may have committed part of its work.
Finish(p, end) ==
    /\ scripts[p].st = "running"
    /\ scripts' = [scripts EXCEPT ![p].st = end]
    /\ LET commit == [uid |-> scripts[p].uid, gen |-> scripts[p].gen]
       IN router' = commit \/ (end = "fail" /\ router' = router)
    /\ UNCHANGED <<stream, queued, local, vmUp, boots, target, faults>>

\* execApplyTimeout passes for the exec in flight.
Elapse(p) ==
    /\ MayHang /\ Api.st.started = p /\ ~scripts[p].late
    /\ scripts' = [scripts EXCEPT ![p].late = TRUE]
    /\ UNCHANGED <<stream, queued, local, router, vmUp, boots, target, faults>>

\* The VM stops (for the daemon: its agent disconnects) and scripts die with it.
VMStop ==
    /\ vmUp /\ boots < MaxBoots
    /\ vmUp' = FALSE
    /\ scripts' = [p \in DOMAIN scripts |->
         [scripts[p] EXCEPT !.st = IF @ = "running" THEN "dead" ELSE @,
                            !.broken = @ \/ (Provider = "daemon" /\ scripts[p].st = "running"),
                            !.tracked = @ /\ Provider = "daemon"]]
    /\ queued' = (queued \/ Provider = "kubevirt")
    /\ UNCHANGED <<stream, local, router, boots, target, faults>>

VMStart ==
    /\ ~vmUp
    /\ vmUp' = TRUE /\ boots' = boots + 1
    /\ queued' = (queued \/ Provider = "kubevirt")
    /\ UNCHANGED <<stream, local, scripts, router, target, faults>>

\* The target controller's poll publishes a change of the VM's state; the
\* target's watch event enqueues the configs of the target.
TargetPoll ==
    /\ target.vmRunning # vmUp
    /\ target' = [target EXCEPT !.vmRunning = vmUp]
    /\ queued' = TRUE
    /\ UNCHANGED <<stream, local, scripts, router, vmUp, boots, faults>>

\* The Proxmox cluster sync sees the low uptime and publishes a newer reboot.
RebootPublish ==
    /\ Provider = "proxmox" /\ vmUp /\ target.reboot < boots
    /\ target' = [target EXCEPT !.reboot = boots]
    /\ queued' = TRUE
    /\ UNCHANGED <<stream, local, scripts, router, vmUp, boots, faults>>

Forget == [p \in DOMAIN scripts |-> [scripts[p] EXCEPT !.tracked = FALSE]]

\* The guest agent restarts, or the daemon's call runs into its deadline; the
\* scripts they started run on.
AgentFails ==
    /\ vmUp /\ Fault("agent")
    /\ scripts' = IF Provider # "daemon" THEN Forget
                  ELSE [p \in DOMAIN scripts |-> [scripts[p] EXCEPT
                          !.broken = @ \/ scripts[p].st = "running"]]
    /\ UNCHANGED <<stream, queued, local, router, vmUp, boots, target>>

StartOver == [p \in DOMAIN scripts |->
                 [scripts[p] EXCEPT !.tracked = FALSE, !.freed = TRUE]]

\* The operator restarts: the reconcile is cut short, the cache is listed anew,
\* and the daemon provider starts with an empty registry and counts from 0 again.
OperatorRestart ==
    /\ Fault("operator")
    /\ stream' = <<Api>>
    /\ Return(TRUE)
    /\ scripts' = IF Provider = "daemon" THEN StartOver ELSE scripts
    /\ UNCHANGED <<router, vmUp, boots, target>>

\* The restarted daemon provider gives the number that the status still holds to a
\* call of another config.  It never gives it to one of this config, which dispatches
\* only when its status holds none; and a number that no status holds tells nobody.
NumberReused(p) ==
    /\ Api.st.pid = p /\ scripts[p].freed /\ ~scripts[p].tracked
    /\ scripts' = [scripts EXCEPT ![p].tracked = TRUE, ![p].freed = FALSE,
                                  ![p].taken = TRUE]
    /\ UNCHANGED <<stream, queued, local, router, vmUp, boots, target, faults>>

\* Another config still holds this number from an earlier process, polls it, and so
\* takes the result of this config's call out of the registry.
ResultTaken(p) ==
    /\ Provider = "daemon" /\ Fault("operator")
    /\ scripts[p].tracked /\ ~scripts[p].taken
    /\ scripts[p].st # "running" \/ scripts[p].broken
    /\ scripts' = [scripts EXCEPT ![p].tracked = FALSE]
    /\ UNCHANGED <<stream, queued, local, router, vmUp, boots, target>>

----------------------------------------------------------------------------
(* The specification *)

Poll == PollRunning \/ PollExited \/ PollLost \/ PollError
Dispatch == SkipDone \/ applyConfig \/ applyConfigError \/ applyConfigUnreachable
Patch == PatchStatus \/ PatchStatusFails \/ PatchStatusAnswerLost

Controller ==
    \/ Reconcile \/ UpdateFinalizer
    \/ onChange \/ onChangeStopped \/ onChangeError
    \/ CheckReady \/ CheckReadyFails
    \/ Poll \/ Dispatch \/ Patch

ScriptEnds == \E p \in DOMAIN scripts, end \in {"ok", "fail"} : Finish(p, end)
TimePasses == \E p \in DOMAIN scripts : Elapse(p)
OthersShare == \E p \in DOMAIN scripts : NumberReused(p) \/ ResultTaken(p)

Environment ==
    \/ Deliver \/ SpecUpdate \/ Delete \/ Recreate \/ ScriptEnds \/ TimePasses
    \/ VMStop \/ VMStart \/ TargetPoll \/ RebootPublish
    \/ AgentFails \/ OperatorRestart \/ OthersShare

Next == Controller \/ Environment

\* The work queue, the informers and the periodic syncs run; a script ends
\* unless scripts may hang, and then time passes.  Nothing obliges anyone to start a stopped VM again.
Fairness ==
    /\ WF_vars(Controller) /\ WF_vars(Deliver)
    /\ WF_vars(TargetPoll) /\ WF_vars(RebootPublish)
    /\ IF MayHang THEN WF_vars(TimePasses) ELSE WF_vars(ScriptEnds)

Spec == Init /\ [][Next]_vars
FairSpec == Spec /\ Fairness

----------------------------------------------------------------------------
(* Properties *)

\* The variables keep their types, whatever the reconcile and the world around
\* it do (api/v1/vrouterconfig_types.go).
TypeOK ==
    /\ stream \in Seq(Versions) /\ Len(stream) \in 1..(MaxLag + 1)
    /\ queued \in BOOLEAN
    /\ pc \in {"idle", "addFinalizer", "onDelete", "onChange", "checkReady",
               "dispatchOrPoll", "patch"}
    /\ snap \in Versions /\ next \in Statuses
    /\ ret \in {"done", "requeue", "checkReady"} /\ reboot \in Nat
    /\ scripts \in Seq(Scripts)
    /\ router \in [uid : Nat, gen : Nat]
    /\ vmUp \in BOOLEAN /\ boots \in Nat
    /\ target \in [vmRunning : BOOLEAN, reboot : Nat]
    /\ faults \in Nat

\* Applied=True for generation g is only ever shown after a script of generation
\* g of this very object ended without a failure, even when the spec moved on
\* while the script ran or the status was patched from a stale copy
\* (pollExecStatus stamps the generation dispatched, not the current one).  The one
\* other way to it: after a restart of the operator the daemon provider gave the
\* handle of such a script to another config's call, and that call ended well.
AppliedSound ==
    Api.st.applied.status = "True" =>
        \E p \in DOMAIN scripts : /\ scripts[p].uid = Api.uid
                                  /\ scripts[p].gen = Api.st.applied.gen
                                  /\ scripts[p].st = "ok" \/ scripts[p].taken

\* The Applied condition is True exactly when the phase is Applied, and then for
\* the generation last dispatched and with nothing in flight
\* (vrouterconfig_types.go: "True when phase=Applied").
AppliedMatchesPhase ==
    /\ Api.st.applied.status = "True" <=> Api.st.phase = "Applied"
    /\ Api.st.phase = "Applied" =>
           Api.st.applied.gen = Api.st.obs /\ Api.st.pid = 0

\* The recorded handle was given to an exec of this object and of the generation
\* that observedGeneration names: a result polled for it is never credited to another
\* generation (applyConfig records pid and generation in one patch).
HandleMatchesGeneration ==
    Api.st.pid > 0 => /\ scripts[Api.st.pid].uid = Api.uid
                      /\ scripts[Api.st.pid].gen = Api.st.obs

\* An exec in flight has its own start time, so it is always subject to
\* execApplyTimeout, and the start time goes with the handle; only the exec that an
\* older operator left waits for its stamp (stampExecStartedTimeIfMissing).
TimeoutClockMatchesExec ==
    \/ Api.st.started = Api.st.pid
    \/ Legacy /\ Api.st.started = 0 /\ Api.st.pid = 1

\* One reboot forces at most one re-apply whose dispatch was recorded, failed or
\* not (shouldForceReapplyForReboot, SPEC section 7.2).
OneApplyPerReboot ==
    \A p, q \in DOMAIN scripts :
        (scripts[p].rec /\ scripts[q].rec /\ scripts[p].uid = scripts[q].uid
         /\ scripts[p].forced > 0 /\ scripts[p].forced = scripts[q].forced) => p = q

\* At most one script runs on the router: "Single-router commits are already
\* serialized by the config controller's execPID handling"
\* (vrouterbinding_controller.go, gateRemaining).
AtMostOneRunning ==
    Cardinality({p \in DOMAIN scripts : scripts[p].st = "running"}) <= 1

\* No call failed, nothing restarted, no exec outlived its timeout, and the
\* object was not created anew.
Calm == faults = 0 /\ \A p \in DOMAIN scripts : ~scripts[p].late /\ scripts[p].uid = Api.uid

\* While all is calm scripts do run one after the other, and between reconciles an
\* object that says Applied=True for a generation names the last one the router
\* committed, whatever specs, deletes and VM restarts do (dispatchOrPoll starts
\* nothing while status.execPID is set).
CalmIsSerial ==
    Calm => /\ AtMostOneRunning
            /\ (pc = "idle" /\ Api.live /\ Api.st.applied.status = "True") =>
                   router = [uid |-> Api.uid, gen |-> Api.st.applied.gen]

\* What the binding controller reads of a status.
View(st) == [phase |-> st.phase, obs |-> st.obs,
             ok |-> IF st.applied.status = "True" THEN st.applied.gen ELSE 0]

Contract == INSTANCE ConfigContract WITH
    uid <- Api.uid, gen <- Api.gen, st <- View(Api.st)

\* What others see of the object obeys the abstract life of a config: dispatches
\* go forward, a result follows its own dispatch, and Applied ends before another
\* exec starts to be recorded - the contract the rollout walk relies on.
ImplementsContract == Contract!Spec

\* A reconcile's status patch, sent by name, never lands on a later incarnation
\* of the object than the one the reconcile read: the finalizer keeps the object
\* until this same controller lets it go.
PatchSameIncarnation ==
    [][(Api'.st # Api.st /\ Api'.uid = Api.uid) => snap.uid = Api.uid]_vars

\* observedGeneration never goes back, even through merge patches computed from
\* stale copies: a generation once dispatched is not forgotten.
ObservedNeverRegresses ==
    [][Api'.uid = Api.uid => Api'.st.obs >= Api.st.obs]_vars

Settled ==
    \/ ~Api.live \/ ~vmUp
    \/ /\ Api.st.pid = 0 /\ Api.st.obs = Api.gen
       /\ Api.st.phase \in {"Applied", "Failed"}
       /\ ~shouldForceReapplyForReboot(Api.st.handled, target.reboot)

\* Once specs, VM and faults come to rest, the object reaches a conclusive phase
\* for its current generation, every published reboot is handled, and it stays so.
Settles == <>[]Settled

\* No exec stays recorded as in flight while the VM is up, one without a start
\* time included: it is collected, lost or given up at execApplyTimeout
\* (pollExecStatus, failApplyTimeout).
InFlightBounded ==
    \A p \in 1..MaxScripts :
        Api.st.pid = p ~> (~Api.live \/ ~vmUp \/ Api.st.pid # p)

============================================================================
