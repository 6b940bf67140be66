--------------------------- MODULE ProxmoxCluster ---------------------------
(***************************************************************************)
(* The periodic sync of a ProxmoxCluster                                   *)
(* (internal/controller/proxmoxcluster_controller.go) and the poll of the  *)
(* VRouterTarget controller, for one Proxmox target: how the VM's node,    *)
(* its running state and its reboots reach VRouterTarget.status.           *)
(*                                                                         *)
(* Time is counted in ticks, from Start on; a due step may be late by at   *)
(* most Slack.  A reboot restarts the guest kernel BootDelay after the     *)
(* machine; a hard one restarts the machine as well.                       *)
(***************************************************************************)
EXTENDS Integers, FiniteSets

CONSTANTS
    SyncInterval,       \* spec.syncInterval
    Tolerance,          \* rebootTimeTolerance
    CheckGuestUptime,   \* spec.checkGuestUptime
    BootDelay,          \* from the machine's start to the guest kernel's
    PollDelay,          \* how long reading the guest's uptime may take
    Slack,              \* how late a due sync may start
    Faults,             \* "fetch", "agent", "patch" (of the target), "cluster" (patch), "operator"
    MaxFaults,          \* bound: faults
    MaxBoots,           \* bound: reboots
    MaxTime             \* bound: the clock

ASSUME SyncAssumption ==
    /\ SyncInterval \in Nat \ {0} /\ CheckGuestUptime \in BOOLEAN
    /\ {Tolerance, BootDelay, PollDelay, Slack, MaxFaults, MaxBoots, MaxTime} \subseteq Nat
    /\ Faults \subseteq {"fetch", "agent", "patch", "cluster", "operator"}

VARIABLES
    clock,
    vm,          \* "running", "stopped" or "gone" from the cluster
    host, guest, \* when the machine and the guest kernel started
    reboots,     \* history: when the VM rebooted
    downAt,      \* history: when it was destroyed
    published,   \* history: the values status.lastRebootTime has had
    target,      \* the VRouterTarget's status: node, running, reboot; 0 is no reboot
    lastSync,    \* status.lastSyncTime of the cluster
    wake,        \* when the cluster's key comes back to the work queue
    pc, t,       \* where the sync is, and its copy of the target's status
    now, uptime, \* when it fetched the resources; the uptime it saw, -1 when not found
    faults

outside == <<vm, host, guest, reboots, downAt>>
local == <<pc, t, now, uptime>>
vars == <<clock, outside, published, target, lastSync, wake, local, faults>>

Start == 2 * SyncInterval
Threshold(u) == 2 * u <= 3 * SyncInterval
Fault(kind) == kind \in Faults /\ faults < MaxFaults /\ faults' = faults + 1

\* A sync that ends leaves nothing behind.
NoCopy == [node |-> FALSE, running |-> FALSE, reboot |-> 0]
Return == pc' = "idle" /\ t' = NoCopy /\ now' = 0 /\ uptime' = -1

Init ==
    /\ clock = Start /\ vm = "running" /\ host = 0 /\ guest = 0
    /\ reboots = {} /\ downAt = 0 /\ published = {}
    /\ target = [node |-> TRUE, running |-> TRUE, reboot |-> 0]
    /\ lastSync = Start /\ wake = Start + SyncInterval
    /\ pc = "idle" /\ t = NoCopy /\ now = 0 /\ uptime = -1
    /\ faults = 0

\* Mutants of nextRebootTime: every low uptime dates a reboot; the uptime is
\* counted back from the reboot already known.
nextRebootTimeAlways(at, up, current) == at - up
nextRebootTimeFromKnown(at, up, current) == current - up
\* The start that an uptime dates, unless it is the one already known.
nextRebootTime(at, up, current) ==
    IF current # 0 /\ (at - up) - current <= Tolerance THEN current ELSE at - up

\* Mutant of desiredProxmoxNode: a VM that is not listed keeps its node.
desiredProxmoxNodeKept(up) == t.node \/ up >= 0
\* Whether a node is known for the VM: only when the sync found it.
desiredProxmoxNode(up) == up >= 0

\* Mutant of Recent: an uptime above one interval is too old.
RecentOne(up) == up > 0 /\ up <= SyncInterval
Recent(up) == up > 0 /\ Threshold(up)

\* onChange before syncInterval has passed since the last sync, as after a restart or
\* any event: the key comes back when it has.  The queue keeps the earlier of two times.
NotYet ==
    /\ pc = "idle" /\ clock - lastSync < SyncInterval
    /\ wake' = IF clock < wake /\ wake < lastSync + SyncInterval
               THEN wake ELSE lastSync + SyncInterval
    /\ UNCHANGED <<clock, outside, published, target, lastSync, local, faults>>

\* Once it has: the cluster's resources and the cached targets.
Fetch ==
    /\ pc = "idle" /\ clock - lastSync >= SyncInterval
    /\ now' = clock /\ t' = target
    /\ uptime' = (CASE vm = "running" -> clock - host [] vm = "stopped" -> 0 [] OTHER -> -1)
    /\ pc' = "host"
    /\ UNCHANGED <<clock, outside, published, target, lastSync, wake, faults>>

\* No endpoint answers: markTargetsStopped, which may fail too, and another try.
FetchFails ==
    /\ pc = "idle" /\ clock - lastSync >= SyncInterval /\ Fault("fetch")
    /\ target' \in {target, [target EXCEPT !.running = FALSE]}
    /\ wake' = clock + SyncInterval
    /\ UNCHANGED <<clock, outside, published, lastSync, local>>

\* The node, and a reboot seen in the machine's uptime.
HostUptime ==
    /\ pc = "host"
    /\ t' = [t EXCEPT !.node = desiredProxmoxNode(uptime),
                      !.reboot = IF Recent(uptime) THEN nextRebootTime(now, uptime, @) ELSE @]
    /\ pc' = IF uptime >= 0 /\ CheckGuestUptime THEN "guest" ELSE "patch"
    /\ UNCHANGED <<clock, outside, published, target, lastSync, wake, now, uptime, faults>>

\* fetchGuestUptime: measured at m, after the exec was sent; dated when it is read.
GuestUptime ==
    /\ pc = "guest" /\ vm = "running"
    /\ \E m \in now..clock :
          /\ m >= guest
          /\ t' = [t EXCEPT !.reboot = IF Recent(m - guest)
                                       THEN nextRebootTime(clock, m - guest, @) ELSE @]
    /\ pc' = "patch"
    /\ UNCHANGED <<clock, outside, published, target, lastSync, wake, now, uptime, faults>>

\* The guest is not up, or its agent does not answer: skipped.
GuestUptimeFails ==
    /\ pc = "guest"
    /\ IF vm = "running" /\ guest <= clock THEN Fault("agent") ELSE UNCHANGED faults
    /\ pc' = "patch"
    /\ UNCHANGED <<clock, outside, published, target, lastSync, wake, t, now, uptime>>

Synced(at, back) == lastSync' = at /\ wake' = back /\ Return

\* The target's patch, and then the cluster's.  The first may fail unnoticed.
PatchTarget ==
    /\ pc = "patch"
    /\ target' = [target EXCEPT !.node = t.node, !.reboot = t.reboot]
    /\ published' = IF t.reboot = 0 THEN published ELSE published \cup {t.reboot}
    /\ \/ Synced(now, clock + SyncInterval) /\ UNCHANGED faults
       \/ Fault("cluster") /\ Synced(lastSync, clock)
    /\ UNCHANGED <<clock, outside>>

PatchTargetFails ==
    /\ pc = "patch" /\ Fault("patch")
    /\ Synced(now, clock + SyncInterval)
    /\ UNCHANGED <<clock, outside, published, target>>

\* The VRouterTarget controller's poll.
TargetPoll ==
    /\ target.running # (vm = "running")
    /\ target' = [target EXCEPT !.running = (vm = "running")]
    /\ UNCHANGED <<clock, outside, published, lastSync, wake, local, faults>>

OperatorRestart ==
    /\ Fault("operator")
    /\ wake' = clock /\ Return
    /\ UNCHANGED <<clock, outside, published, target, lastSync>>

\* The VM: a soft or hard reboot, a stop and a later start, its destruction.
Reboot ==
    /\ Cardinality(reboots) < MaxBoots /\ vm # "gone" /\ clock \notin reboots
    /\ host' \in (IF vm = "running" THEN {host, clock} ELSE {clock})
    /\ guest' = clock + BootDelay /\ vm' = "running"
    /\ reboots' = reboots \cup {clock}
    /\ UNCHANGED <<clock, downAt, published, target, lastSync, wake, local, faults>>

StopOrDestroy ==
    /\ vm # "gone"
    /\ vm' \in {"stopped", "gone"} \ {vm}
    /\ downAt' = IF vm' = "gone" THEN clock ELSE downAt
    /\ UNCHANGED <<clock, host, guest, reboots, published, target, lastSync, wake, local, faults>>

\* Time passes while nothing is overdue, or while the guest's answer is awaited.
Tick ==
    /\ clock < MaxTime
    /\ \/ pc = "idle" /\ clock < wake + Slack
       \/ pc = "guest" /\ clock < now + PollDelay
    /\ clock' = clock + 1
    /\ UNCHANGED <<outside, published, target, lastSync, wake, local, faults>>

Sync == \/ NotYet \/ Fetch \/ FetchFails \/ HostUptime \/ GuestUptime \/ GuestUptimeFails
        \/ PatchTarget \/ PatchTargetFails

Next == Sync \/ TargetPoll \/ OperatorRestart \/ Reboot \/ StopOrDestroy \/ Tick

Spec == Init /\ [][Next]_vars

----------------------------------------------------------------------------
(* Properties *)

\* The variables keep their types (VRouterTargetStatus, ProxmoxClusterStatus).
TypeOK ==
    /\ {clock, host, guest, downAt, lastSync, wake, now, faults} \subseteq Nat
    /\ vm \in {"running", "stopped", "gone"}
    /\ reboots \subseteq Nat /\ published \subseteq Nat \ {0}
    /\ {target, t} \subseteq [node : BOOLEAN, running : BOOLEAN, reboot : Nat]
    /\ pc \in {"idle", "host", "guest", "patch"} /\ uptime \in Nat \cup {-1}

\* Whether the VM rebooted after v and up to w; or else one reboot dates both: the second
\* time by a guest that was slow to start or to answer, beyond the tolerance.
Between(v, w) == \E e \in reboots : v < e /\ e <= w
Restamped(v, w) ==
    v + Tolerance < w /\ \E e \in reboots : e <= v /\ w <= e + BootDelay + PollDelay

\* Two values of lastRebootTime mean two reboots, for each forces a re-apply; unless, against
\* SPEC section 7.3 ("settle on one stable value"), the guest started or was read so late
\* that nextRebootTime takes its uptime for a newer reboot.
StampPerReboot ==
    \A v, w \in published : v < w => Between(v, w) \/ Restamped(v, w)

\* lastRebootTime never goes back, and never lies in the future.
RebootTimeAdvances == [][target'.reboot >= target.reboot /\ target'.reboot <= clock]_vars

\* More than the time of so many syncs since e, and of one more for every fault.
Late(e, syncs) == clock > e + (syncs + faults) * (SyncInterval + Slack + PollDelay)

\* A reboot of a VM that stays up is published within the time of two syncs, as
\* long as none fails (the 1.5 x syncInterval window of onChange).
RebootSeen ==
    \A e \in reboots :
        (Late(e, 2) /\ faults = 0 /\ vm = "running" /\ \A f \in reboots : f <= e)
            => \E v \in published : v >= e - Tolerance

\* A destroyed VM loses its node within the time of one sync, and each failed fetch,
\* failed patch or restart costs at most one more (SPEC section 7.3, 4a).
NodeCleared == vm = "gone" /\ Late(downAt, 1) => ~target.node

=============================================================================
