# vrouter-operator: a TLA+ verification project

vrouter-operator is a Kubernetes operator that renders VyOS configurations from templates
and applies them to virtual routers running on KubeVirt, on Proxmox or behind a
vrouter-daemon agent. This directory holds TLA+ models of the parts in which its logic
lives, TLC runs over small instances, and TLAPS proofs for every value of the parameters.
`PROJECT.json` lists the runs, the source lines behind each definition, the hazards and
the findings.

## The system and its parts

| Part | State it keeps | Operations | Talks to |
|---|---|---|---|
| VRouterBinding controller | `status.rollout` (frontier and its time), `Ready` | render all, delete orphans, write all, one step of the rollout walk | creates VRouterConfigs; watches templates, params, targets |
| VRouterConfig controller | `status`: phase, `execPID`, `execStartedTime`, `observedGeneration`, `lastRebootHandledTime`, condition `Applied` | probe, poll, dispatch, time out, finalizer | a provider; watches its target and (KubeVirt) VMIs |
| VRouterTarget controller | `status.vmRunning` | poll every 60 s | a provider; its status wakes configs |
| ProxmoxCluster controller | `status.lastSyncTime`; the targets' `proxmoxNode` and `lastRebootTime` | periodic sync | Proxmox API; its writes wake configs |
| daemon provider | in-memory registry of background calls, handle counter | ExecScript, GetExecStatus | vrouter-daemon (gRPC) |
| KubeVirt, Proxmox providers | none (the guest agent keeps the pids) | IsVMRunning, CheckReady, ExecScript, GetExecStatus | QEMU guest agent |
| template rendering, params merge | none | render | binding controller |
| admission webhooks | none | validate, default | API server |
| template, params controllers | none | nothing | - |
| manager (`cmd/main.go`) | none | wiring | - |

What is hard about it:

* A reconcile is not atomic. Between its cached read, its calls to a guest and its status
  patch, specs change, objects are deleted and created anew, VMs stop, scripts end.
* Status writes are merge patches without a resourceVersion, computed from a copy that
  may be stale.
* Scripts outlive the reconcile, the API call that started them and the operator.
* Five kinds of objects refer to each other; what checks and follows the references reads
  caches that are behind, each in its own way, and deletion waits for finalizers.
* Two controllers patch one status from copies of their own, and a request to a guest whose
  answer is lost may have been carried out, or may be later.
* The rollout keeps its whole state in two objects that cannot be written together.
* Three clocks decide things: rollout intervals, the apply timeout, and uptimes from which
  reboots are inferred.

What makes each part correct: a config never claims `Applied` for what did not run, never
waits for ever, and re-applies once per reboot; a rollout has one unverified router at a
time, survives crashes and completes; a result goes to the config it belongs to; a reboot
is published once, and in time; references stay whole, deletion ends, and a binding ends up
with exactly the configs it names; a target's status ends up true.

## Modules

| Module | Models |
|---|---|
| `VRouterConfig` | one VRouterConfig, its controller, the informer cache, the execs in the guest, and the target's published status |
| `ConfigStatus` | what a binding sees of a config's status, and the moves it may make |
| `ConfigContract` | the abstract life of a config; `VRouterConfig` implements it, `VRouterBinding` assumes its moves |
| `VRouterBinding`, `MCVRouterBinding` | one binding, its controller in all three modes, and its configs as `ConfigStatus` lets them move |
| `Lifecycle` | bindings, configs, targets, params and templates from admission to deletion: webhooks, finalizers, orphans, ownership, garbage collection |
| `DaemonProvider` | the call registry shared by several configs, across operator restarts |
| `ProxmoxCluster` | the periodic sync and the target poll for one Proxmox VM, with time |
| `ProxmoxProvider` | requests to one Proxmox VM that moves: node lookup, endpoint failover, CheckReady, ExecScript; target poll and cluster sync against each other |
| `VRouterConfig_proofs`, `VRouterConfig_contract`, `VRouterConfig_lag` | theorems about `VRouterConfig`: types and the frames of its steps; with a current cache; with a cache any number of versions behind |
| `VRouterBinding_proofs` | theorems about `VRouterBinding` |
| `Lifecycle_proofs`, `DaemonProvider_proofs`, `ProxmoxCluster_proofs`, `ProxmoxProvider_proofs` | theorems about the modules they are named for |

### VRouterConfig

A reconcile is the steps `Reconcile` (read the cache), `UpdateFinalizer`, `onChange`
(target, provider, IsVMRunning, the missing start time), `CheckReady`, then a poll
(`PollRunning`, `PollExited`, `PollLost`, `PollError`) or a dispatch (`SkipDone`,
`applyConfig` and its failures), then `PatchStatus` or one of its two ways to fail. Each step
reads what the code reads at that moment; everything else may happen in between. The
object is a sequence of versions: the head is what the informer has delivered, the last is
what the API server holds; `MaxLag` bounds the distance. A patch carries only the fields
that differ from the copy the reconcile started from (`MergePatch`); the conditions go as
one field, as the array does in a JSON merge patch, and keep their reason, because a changed reason sends
the array. Finalizer updates carry a resourceVersion and are refused on a stale copy.

Execs are numbered in the order they start and the number stands for the handle. `execStartedTime` is the handle it dates, and `late` says that
`execApplyTimeout` has passed for it. Guest agent and daemon report an end once. The guest-agent providers cannot tell an unknown pid from another error, the daemon can.

The daemon provider's own numbers start over with the operator (`StartOver`), while the status keeps the old
one. What other configs then do to this one's execs is two actions: `NumberReused` (the number in the status is
given to another config's call, and GetExecStatus answers with whatever that call comes to) and `ResultTaken` (a config that
holds an old number polls it and takes away this config's result). A number that this config itself gets twice
needs no action: a restart lists the cache anew, and a config dispatches only while its status holds no number.
That two configs get their numbers from one counter is `DaemonProvider`. The pids of a guest are taken
not to be given out again before the config has polled them.

Left out: the status message, `lastAppliedTime`, the text of scripts.

### VRouterBinding

A spec is the number of its render. A write bumps the generation of a config exactly when
it changes the spec, so a spec also stands for its generation. The reconcile is
`Reconcile` (binding from the cache, all targets rendered), `cleanupOrphans`, then the
walk's decision in one step (`Halt`, `Wait`, `EndOfWalk`, `FirstMismatch`), then
`stampRolloutFrontier` and `createOrUpdateOne` as two steps, since a crash between them is what write-ahead stamping is about.
Times are kept as ages and `Tick` lets them grow, up to the longest duration that matters.
The walk reads its configs in one step: its reads are of a local cache and it
writes at most one config.

`Modes` holds the modes a behaviour may start in and `Lag` those in which the cached binding
may be behind. The stamp is a merge patch from that copy: its target goes along only if the copy shows another
one. `last` keeps, in FixedInterval, the last write and the age of its stamp, and `misled`: a stamp was
made from a copy that did not show the one before. `Ready` is written whole, since its condition is one
field that only this controller writes. Times are in ticks; that the API keeps them in whole seconds, and so may cut up to
a second off a wait, is left out. Left out here too: the binding's finalizer and deletion, which are in `Lifecycle`, and
two bindings that share a target. `verified` and `last` are history variables.

### Lifecycle

`api` holds the stored objects by kind and `seen` the operator's caches; a kind in `Lagging` has a
cache that catches up in a step of its own (`Sync`). Every change of a cache queues the keys the
watches of `SetupWithManager` name: a binding for its own change and for that of its template, params
or targets; a config for its own change and its target's. A binding's reconcile is `ReconcileFinalizer`
or `Reconcile`, `renderAll`, `cleanupOrphans` (from the cached list), then `createOrUpdateOne` for
all targets in mode Disabled, or the rollout's walk: `RolloutWaits` (a Failed config, a closed gate, the end of the walk),
or `stampRolloutFrontier` and the write of one target. Admission is `validateBinding`, `validateVRouterConfig`,
`checkTargetNotReferenced` and `checkParamsNotReferenced`, each of which reads the caches; updates of
an object that is being deleted are not validated. Finalizer updates go through admission as well,
which is what `DeletionEnds` is about. `forged` remembers that a check passed only because a cache was
behind; `slipped` names the configs that came or went when the binding's reconcile could not see it.

Outside the operator: users who create, edit, delete and restore, the API server with its
resourceVersions, and the garbage collector. Contents never change here, so a config that exists is
right and a mismatch of the walk is a target without one. Statuses are not kept either: whether a config is Failed, or the
gate behind a frontier that has a config is open, is a free choice, and behind one that has none it stays closed.
`ConfigsMade` is therefore about mode Disabled; how far a rollout gets is `Completes` of `VRouterBinding`.

### DaemonProvider

`execMap` maps handles to calls, `pidSeq` is the counter; both are package variables and
start over with the process, while `status[c].pid` is in the API server and does not. The
reconcile of a config is one provider call and one patch; the config controller has one
worker. `abandoned` counts the entries that no config will ask for again.

### ProxmoxCluster

A reconcile before `syncInterval` has passed only asks to come back (`NotYet`). A sync fetches the
resources (`Fetch`), handles node and machine uptime (`HostUptime`), asks the
guest (`GuestUptime`, which takes time), and patches target and cluster. A reboot may be soft
(the guest kernel only) or hard, and the kernel starts `BootDelay` after the machine. Uptimes
and stored times are whole ticks. Several targets in one sync, credentials and the `Synced` condition are left out.

### ProxmoxProvider

The poll of the target controller reads its cached target (`PollReads`), looks the node up if the
status has none (`PollLooksUp`), asks that node (`PollProbes`: a node that does not have the VM answers 404,
which means stopped, or another error) and patches `vmRunning` if it is news to its copy. The sync of
the cluster controller patches the node, or, when no endpoint answers, marks running targets stopped.
Neither sees what the other wrote in between. In the config's reconcile `New` binds the provider to a node
of any age; `CheckReady` runs systemctl in the guest and polls it; `ExecScript` writes the script to a fixed
path and executes that path. These two POSTs go to one endpoint after another: `PostAnswered` ends the list,
`PostFails` (not sent, answer lost, or carried out later by `CarriedOutLate`) goes on with it.

`side` picks, once, which of the two halves a behaviour shows: the status (poll and sync) or the calls.
The halves share the VM, which they only watch, and the cached node, which `New` takes from all nodes
rather than from the status; so neither half loses a behaviour. Reads are one step, since a failed
read changes nothing wherever it is retried.

## Runs

All runs say CHECK_DEADLOCK FALSE: an operator with nothing queued, or a run at its bounds,
has really stopped. Sizes are distinct states.

| Run | Shows | Size |
|---|---|---|
| `config_faults` | KubeVirt, two generations, one fault of any kind, hanging scripts, an object of an older operator: condition and phase agree, the status obeys the contract and settles, and no exec outlives its timeout; without faults scripts are serial | 36 K |
| `config_reboot` | Proxmox, a VM that stops and starts, failing patches and probes: one recorded apply per published reboot, and the config settles | 212 K |
| `config_lag` | cache one version behind, two incarnations: what still holds | 1.4 M |
| `config_daemon` | the daemon provider, whose results are reported once, whose calls break with the VM and whose numbers start over with the operator: `Applied=True` only after a script of its generation ended well, or after another config's call that was given that script's number did | 3.4 M |
| `rollout_gate` | WaitForApplied with faults, a crash, a failing router, one that reboots or loses a result, deleted configs and `targetRefs` edits: one unverified config, the frontier is recorded, `Ready` is sound | 3.3 M |
| `rollout_live` | all three modes, failing renders, patches and writes, a crash, a re-render, and a binding cache that lags in FixedInterval and WaitForApplied: a write of FixedInterval keeps its distance from the last stamp, but for a stamp from an old copy, and a rollout completes and says so | 930 K |
| `daemon_registry` | two configs, one registry: no leak beyond abandoned handles, results go to their owner until the operator restarts, no config waits for ever | 26 K |
| `lifecycle` | a binding edited, deleted and created anew, and references deleted and restored, with every cache behind: references exist unless a check was misled by a cache, every config has an owner, deletion ends, orphans go, and in mode Disabled configs are made | 206 K |
| `proxmox_vm` | a VM that migrates, stops, starts, is destroyed; endpoints that fail, lose an answer or act late: the status settles on the truth, a script is started again only for a start that was not answered, the pid is of the right script, the provider returns | 173 K |
| `sync_faults` | two reboots, a guest that is slow to answer, one fault: two published values mean two reboots or a slow guest, a reboot is published in time and none moves back, a destroyed VM loses its node | 8.4 M |

Bounds. Two generations, two incarnations and one fault are enough for every
hazard listed: each takes one disturbance between two steps of one reconcile, or a second
generation after it. `MaxScripts` is above what the other bounds let a behaviour start,
so that no dispatch is refused where it would matter. Two targets show every case of the gate (the
frontier is the next target, another one, gone). In `lifecycle` two operations of users suffice, because
each property needs at most an edit and its undoing (leave and come back, delete and restore,
delete and create anew under the same name: `MaxUid = 2`); the caches may be behind in any combination.
In `proxmox_vm` two endpoints are a list that is left early or late, two calls are an earlier and a
later one, and three faults fail every endpoint of one request and disturb the next. In `sync_faults` the clock runs
on past the time in which a reboot after the first sync must be published, or a fault early on made good. The kernel starts one
tick after the machine and reading the guest takes up to one more, together one more than the tolerance, so
that one reboot may be dated twice; and a poll that takes its tick puts off the next sync beyond `syncInterval`.

### Fairness

* Config: weak fairness of the controller's steps (a queued key is taken, errors and
  `RequeueAfter` put it back), of watch delivery, of the target's poll and of the cluster
  sync, which all run periodically. Scripts end, or, where `MayHang`, time passes. Nothing
  obliges anyone to start a stopped VM: a config whose VM is down counts as settled.
* Binding: weak fairness of the controller, the cache, time, and of the config controller's
  moves for each target, justified by `Settles`.
* Lifecycle: weak fairness of the binding's worker and of each config's key (refused updates are
  requeued), of each cache and of the garbage collector. Nothing obliges users to do anything;
  `OrphansGo` and `ConfigsMade` say what follows once the references resolve for good.
* Proxmox: weak fairness of the two periodic reconciles, the config worker, the informer, and the
  command in the guest, unless it hangs. Nothing obliges an endpoint to carry out a request that was
  given up, or the VM to move.
* Daemon: strong fairness per config (one worker serves all keys, a requeued key gets its
  turn) and weak fairness of patches and of the calls, which have a deadline.

The fairness of the rollout rests on `Settles`, which fails for the daemon provider when
its VM stops and starts between two polls (see below); a rollout over such targets can stall there.

### Disagreements with comments and docs

Two runs expect a violation. Each checks one sentence; `PROJECT.json` has the quotations.

| Run | The sentence says | What happens |
|---|---|---|
| `bug_resume` | a new render that changes the spec of the Failed frontier is written at once (`docs/SPEC.md`) | not if it changes an earlier target too: the gate before that one waits for the Failed frontier, and neither is ever written |
| `bug_alias` | a lost handle never succeeds again (`ErrExecResultLost`) | after a restart it may be another config's new handle, and its result is credited to the wrong config |

The models reach other states that a comment or `docs/SPEC.md` excludes. The properties above are
stated so that they do not depend on them:

* An exec whose handle was not recorded, because its answer or patch was lost, and one given up at
  the timeout run on, and the next dispatch starts another on the same router, though "single-router
  commits are already serialized" (`gateRemaining`). `CalmIsSerial` says when they are.
* `Applied=False` is patched after ExecScript, not before the script starts (SPEC 7.2).
* With a cache one version behind (`MaxLag = 1`) the result of an older exec can leave phase Applied,
  generation 2 observed and the condition of generation 1: `ImplementsContract` and
  `AppliedMatchesPhase` fail there, and so do `OneApplyPerReboot` (a copy from before the patch that
  handled a reboot dispatches for it again) and `CalmIsSerial`. `config_lag` lists none of them. An object of an older operator fares worse with a cache
  further behind (see `VRouterConfig_lag` under Proofs).
* A VM of the daemon provider that stops and comes back between two target polls changes no
  status, and a config whose reconcile saw it stopped is not woken (`onChange` says it will be).
* While a VM is stopped an exec in flight stays recorded past `execApplyTimeout`: `InFlightBounded`
  speaks of a running VM.
* A frontier whose config is missing (its first write failed after the stamp, or it was deleted by hand)
  behind an earlier mismatch is polled for ever. `Completes` excepts that state (`Stranded`), which
  `rollout_live` reaches by a failed write (it deletes nothing by hand).
* `pollInterval: 0` is admitted and turns the WaitForApplied gate off; so does a cached
  `status.rollout` one patch behind. `WrittenIsFrontier` and `OneAtATime` exclude both.
* In FixedInterval a reconcile whose copy does not show its own last stamp finds the interval over and writes the next
  target at once, though "the stagger is a hard guarantee" (`runRollout`). `FixedIntervalStagger` excepts the writes after such a
  stamp (`misled`), which `rollout_live` reaches.
* FixedInterval counts from the stamp, and so does the property: a slow write shortens the gap to the next (SPEC 7.1).
* A closed gate leaves the `Ready=True` of the last render in place. `ReadySound` is about the moment
  Ready turns True.
* The reference checks read caches. A target deleted at the moment a binding names it passes both
  checks; `RefsExist` excepts behaviours in which a check was misled (`forged`). The template webhook
  checks no references when a template is deleted.
* The deletion of a binding does not wait for its configs, though the note on `blockOwnerDeletion`
  (SPEC 7.1) says so: the finalizer is removed at once, and that option only matters to a foreground delete.
* No watch of the binding controller covers configs. One deleted by hand, or one still terminating when its
  target comes back, is made again only when something else wakes the binding; and an orphan that the cached
  list missed stays until then. Both are `slipped`, and `OrphansGo` and `ConfigsMade` except them.
* The script has one path. A file-write that tryDo gave up and that is carried out after the next call's
  file-write makes that call run the earlier script (`overtaken` in `RunsOwnScript`).
* CheckReady of both guest-agent providers polls its command without a deadline, so a systemctl that hangs
  keeps the one worker of the config controller, and no apply timeout of any config fires, though "a persistently
  failing CheckReady cannot keep the config in Applying forever" (SPEC 7.2). `CallsReturn` excepts it.
* A reboot that machine and guest date further apart than `rebootTimeTolerance`, because the kernel started late or
  the guest's answer took long (up to 10 s against a tolerance of 5 s: the time is taken after the poll, the
  uptime somewhere in it), is published twice and re-applied twice, though repeated syncs "settle on one stable value" (SPEC 7.3).
  `StampPerReboot` excepts it (`Restamped`); `sync_faults` reaches it.
* One failed sync may lose a reboot: the window of 1.5 intervals has no room for it. `RebootSeen` is about syncs
  that may be late but do not fail.

## Proofs

All theorems are checked by TLAPS for every value of the constants allowed by the named
assumptions (bounds, sets and durations are arbitrary). Every safety property of a passing run is
stated by one of them. Where a theorem has a hypothesis, the text says what happens without it.

* `TypeCorrect` of all six components, action by action.

**Rollouts** (`VRouterBinding_proofs`)

* `ReadyIsSound`, where WaitForApplied is the only mode; the cached binding may be as old as it likes
  and `pollInterval` zero. `Ordered` says that statuses do not run ahead of their config's spec, specs not
  ahead of what the running reconcile rendered, and renders not ahead of the latest, so that a write always leaves
  the old condition behind and a condition for the current spec proves that this spec was applied. `VerdictSound`
  carries what the end of the walk saw to the patch of the condition: in between a config may be deleted
  or applied again, and nothing else.
* `WrittenIsFrontier` and `OneAtATime`, under `Serial` (`Modes` only WaitForApplied, `Lag` empty,
  `PollInterval > 0`). With WaitForApplied in `Lag`, or with `PollInterval = 0`, TLC finds
  counterexamples. Alone, "the unverified config is the frontier" is not inductive: between stamp and
  write the frontier has moved on while the write is still to come. `SerialInv` adds to `Ordered` that the
  reconcile's copy of the frontier is current up to its own stamp, and that from the gate on every config is
  verified except possibly the target about to be written.
* `Staggered`, without a hypothesis: `FixedIntervalStagger`, with the cached binding as old as it likes. `StaggerInv`
  holds until a stamp is made from a copy that did not show the one before (`misled`): while the interval runs, the stored
  stamp names the target written last and is no older than that write's (`StampCovers`); a gate that saw the stored stamp is
  open only to that target, and stays so up to the write (`GateSaw`, `GateHolds`); and at the write the stored stamp is
  the reconcile's own (`StampLater`, `StampAhead`).

**One config, current cache** (`VRouterConfig_contract`, under `CacheCurrent`, that is `MaxLag = 0`)

* `AppliedIsSound`, `AppliedIsOwn`, `ConditionIsPhase`, `HandleIsOwn` and `ObeysContract`. The second drops the exception of
  `AppliedSound`, a number given out again (`taken`), under `OwnHandles`: the provider is not the daemon's, or its
  operator does not restart. `HandleIsOwn` says for which exec a number was given out, not whose it is by now. `StepInv` relates the pending
  patch to the stored status: while a reconcile is under way the stored status is the one it started
  from (same incarnation; only the spec may have moved), the stored status is faithful to the execs,
  and the patch about to be sent is a move the contract allows that keeps it so.
* `ClockIsOwn`, objects of an older operator included. `DateInv`: a status, stored or about to be, has the
  start time of its own exec, or is still to be stamped; and a patch records an exec only over a status
  that has none.
* `RebootAppliesOnce`. `RebootInv`: what a reconcile read of the target lies between what the config has
  handled and what is published (`RebootsRead`), the patch that records a forced exec handles the reboot that forced it
  and none did before (`ForcedSent`), and so every recorded exec's reboot is handled (`ForcedHandled`).
* `CalmSerial`. `SerialInv`: as long as nothing fails, only the exec in flight runs, its end will be
  reported, no patch gives up one that runs (`OnlyCurrent`), and the router holds what it, or the condition, says
  (`RouterHolds`). It needs `NoLegacyDaemon`: an exec that an older operator left with a daemon is one that this
  operator's registry has never heard of, so it is lost, and dispatched again, without any fault (TLC finds that too).

TLC refutes `OneApplyPerReboot`, `CalmIsSerial`, `AppliedMatchesPhase` and `ImplementsContract` at
`MaxLag = 1`, so `CacheCurrent` cannot be dropped from their theorems.

**One config, any cache** (`VRouterConfig_lag`, any `MaxLag`)

* `PatchesItsOwn`, without a hypothesis. `UidInv`: versions follow one another (`InOrder`); a version a
  reconcile would apply is of the object that exists, because only this controller takes the finalizer off
  and its update is refused on a stale copy (`Pinned`, `Deleting`, `Adopting`).
* `AppliedSoundBehind`, `HandleOwnBehind`, `ClockBehind` and `ObservedGrows`, under `NoLegacy`; `AppliedOwnBehind`, under `OwnHandles` as well. `LagInv` adds to
  `UidInv` that generation and `observedGeneration` grow along the stream, that what is stored as dispatched is no newer
  than what any cached version can show (`ObsCovered`, `ReadCovered`), and that every version, the copy in hand and
  the patch about to be sent are faithful to the execs (`AllSound`, `ReadSound`, `SentSound`). Without `NoLegacy` TLC
  refutes the first three when the cache is three versions behind, and the last when it is six: the stamp of a
  missing start time puts the stored object, ahead of the cache, into the reconcile's hands, which may dispatch a
  generation that a later reconcile's copy does not show yet, and so an older one after it; and a stamp that comes
  late dates an exec that is no longer recorded.

**References, registry, requests**

* `Lifecycle_proofs!ReferencesExist`: `RefsExist` is inductive together with the types (`Sane`; a config that
  exists has an owner): each write is checked against the stored objects or sets
  `forged`, and each removal against both kinds of referrers. No assumption on the caches.
* `ProxmoxProvider_proofs!OwnScript` and `FailoverRuns`. The first needs `ScriptInv`: from the answer to a file-write
  up to the exec the file holds the call's own script, or nothing (on a new VM), unless a write came late,
  and what was started does not change. The second needs `CountInv`: a run of a call without its
  pid is paid for by one start without an answer, a request still pending included.
* `DaemonProvider_proofs!OwnResult`: while no restart has happened, the call behind the handle a config
  holds, or is about to record, is the last one of that config (`OwnInv`); handles only grow, so a new one is
  nobody's. `RegistryIsBounded`, for a finite set of configs: an entry is either due to some config
  (`Held`, at most one per config) or was counted when it was abandoned (`CountInv`).

**Reboots** (`ProxmoxCluster_proofs`, for any durations that satisfy the hypothesis named). All rest on
`Clocks`: nothing observed lies in the future, a sync in progress is young, one that is due starts in time.

* `Advances`, without a hypothesis: a start that is derived from an uptime is later than the stamp it
  replaces by more than the tolerance, or the first.
* `StampsTell`, without a hypothesis. `Starts`: machine and guest start at a
  reboot, or `BootDelay` after it, so a derived start is late by at most `BootDelay + PollDelay`; `Stamps`: the copy of a running
  sync has the stored stamp, or one that is `Apart` from it: a reboot in between, or the same reboot dated again beyond
  the tolerance. `ApartOn` chains such steps. `PromptStamps` is the corollary for a guest within the tolerance: one
  reboot, one value.
* `NodeIsCleared`, without a hypothesis. `Cleared` bounds when the sync in progress, or the next one, must have
  found the VM missing; a fault moves that bound by one `Round`, the time of one sync.
* `RebootIsSeen`, under `Punctual` (guest uptimes are read, a guest is up before the next sync, and the delays of two
  syncs fit in half an interval). `Seen`: while the last reboot is unpublished no sync that began after
  the guest's start has ended, and one that asked the guest holds the reboot. Without `checkGuestUptime`, or with syncs
  that start later, TLC finds reboots that no sync sees within its 1.5 x `syncInterval` window.

Only model-checked: liveness (`Settles`, `InFlightBounded`, `Completes`, `DeletionEnds`, `OrphansGo`,
`ConfigsMade`, `StatusSettles`, `CallsReturn`), which needs fairness and ENABLED.

## Not modelled

* Template rendering, the params merge and the parse of templates in the webhooks: text, of which the
  models need only that a render may fail or give a new spec.
* Two bindings that name one target, and so one config.
* The ProxmoxCluster's credentials, `Synced` condition, finalizer and webhook; several targets in one sync.
* The gRPC connection pool of the daemon provider; the virt-launcher exec of the KubeVirt provider.
* The defaulters, which only log; generated code, manifests, `cmd/main.go` (one worker per controller,
  which the modules assume). The template and params controllers do nothing.

## Plan

1. Two bindings and one target: the label check of `cleanupOrphans`, `SetControllerReference` refusing a
   second owner.
2. A composition of one binding with detailed configs, replacing the contract by its implementation.
3. `pollInterval: 0` as "no requeue", and what then still completes.
4. `MergeParams` as a recursive function over bounded trees against a reference definition.
5. Proofs: what `LagInv` still gives for objects of an older operator; that a cached config in `Lifecycle` names a
   binding that existed; the safety part of the liveness properties (what a stuck state would have to look like).
