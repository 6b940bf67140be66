-------------------------- MODULE ProxmoxProvider --------------------------
(***************************************************************************)
(* One Proxmox VM as the operator sees and uses it: the requests of the    *)
(* Proxmox provider (internal/provider/proxmox/provider.go), which go to   *)
(* one node and to one API endpoint after the other, and the two           *)
(* controllers that keep VRouterTarget.status: the poll of the target      *)
(* controller (running) and the sync of the cluster controller (node; and  *)
(* running, when no endpoint answers).  All three work on copies of a      *)
(* cached target, and none waits for another.  What the config controller  *)
(* sends to the guest and what the other two write share only the VM,      *)
(* which they all just watch, and a node that may be of any age: a         *)
(* behaviour shows one side, which side says which.                        *)
(*                                                                         *)
(* A request that only reads is one step: some endpoint answers it, or     *)
(* none.  A request that changes the guest is one step for each endpoint   *)
(* that is tried: a client that gave up does not know whether its request  *)
(* was, or still will be, carried out.                                     *)
(***************************************************************************)
EXTENDS Integers, Sequences, FiniteSets

CONSTANTS
    Nodes,        \* Proxmox nodes
    Endpoints,    \* number of API endpoints
    Faults,       \* "down", "lost", "late", "patch", "hang", "operator"
    MaxFaults,    \* bound: faults
    MaxMoves,     \* bound: what happens to the VM
    MaxCalls      \* bound: calls of ExecScript

NoNode == "none"

ASSUME ProviderAssumption ==
    /\ Nodes # {} /\ NoNode \notin Nodes
    /\ Endpoints \in Nat \ {0} /\ {MaxFaults, MaxMoves, MaxCalls} \subseteq Nat
    /\ Faults \subseteq {"down", "lost", "late", "patch", "hang", "operator"}

VARIABLES
    side,       \* "status" or "calls": the side of the operator that is at work
    vm,         \* where the VM is, NoNode when the cluster does not list it; up
    file,       \* the call whose script is at ScriptPath, 0 if none
    show,       \* the readiness command: "none", "runs", "ended", "hangs"
    runs,       \* the scripts started: the call that asked for it, the script run
    target,     \* status.proxmoxNode and status.vmRunning of the VRouterTarget
    cached,     \* the operator's cache of it
    poll,       \* the reconcile of the target controller
    sync,       \* the reconcile of the cluster controller
    exec,       \* the reconcile of the config controller, in the provider
    pending,    \* requests given up that an endpoint may still carry out
    handle,     \* history: for each call, the run whose pid it returned, or 0
    unanswered, \* history: for each call, exec requests without an answer
    overtaken,  \* history: a file-write was carried out after a later call began
    moves, faults

outside == <<side, vm, moves>>
status == <<target, cached>>
guest == <<file, show, runs>>
history == <<handle, unanswered, overtaken>>
vars == <<outside, guest, status, poll, sync, exec, pending, history, faults>>

Calls == 1..MaxCalls
Fault(kind) == kind \in Faults /\ faults < MaxFaults /\ faults' = faults + 1
Reachable(node) == node = vm.node /\ vm.up

\* Nothing is kept from one reconcile to the next but the number of the call.
PollIdle == [pc |-> "idle", node |-> NoNode, was |-> FALSE, found |-> FALSE]
SyncIdle == [pc |-> "idle", node |-> NoNode, was |-> [node |-> NoNode, running |-> FALSE]]
ExecIdle(n) == [pc |-> "idle", known |-> NoNode, node |-> NoNode, ep |-> 1, call |-> n]

Init ==
    /\ side \in {"status", "calls"} /\ vm \in [node : Nodes, up : {TRUE}]
    /\ file = 0 /\ show = "none" /\ runs = <<>>
    /\ target = [node |-> NoNode, running |-> FALSE] /\ cached = target
    /\ poll = PollIdle /\ sync = SyncIdle /\ exec = ExecIdle(0)
    /\ pending = {} /\ handle = [n \in Calls |-> 0] /\ unanswered = handle
    /\ overtaken = FALSE /\ moves = 0 /\ faults = 0

----------------------------------------------------------------------------
(* The poll of the target controller: IsVMRunning, then a patch *)

\* A node the status knows is taken on trust, otherwise it is looked up.
PollReads ==
    /\ side = "status" /\ poll.pc = "idle"
    /\ poll' = [pc |-> IF cached.node = NoNode THEN "lookup" ELSE "probe",
                node |-> cached.node, was |-> cached.running, found |-> FALSE]
    /\ UNCHANGED <<outside, guest, status, sync, exec, pending, history, faults>>

\* Mutant of NotListed: a VM that is not listed is an error to IsVMRunning.
NotListedFails == PollIdle
\* errVMNotFound: the VM counts as stopped.
NotListed == [poll EXCEPT !.pc = "patch"]

PollLooksUp ==
    /\ poll.pc = "lookup"
    /\ poll' = IF vm.node = NoNode THEN NotListed
               ELSE [poll EXCEPT !.pc = "probe", !.node = vm.node]
    /\ UNCHANGED <<outside, guest, status, sync, exec, pending, history, faults>>

\* status/current: a node that does not have the VM says 404, which is "not
\* running", or another error, which ends the poll.
PollProbes ==
    /\ poll.pc = "probe"
    /\ poll' \in IF poll.node = vm.node THEN {[poll EXCEPT !.pc = "patch", !.found = vm.up]}
                 ELSE {[poll EXCEPT !.pc = "patch"], PollIdle}
    /\ UNCHANGED <<outside, guest, status, sync, exec, pending, history, faults>>

PollFails ==
    /\ poll.pc \in {"lookup", "probe"} /\ Fault("down")
    /\ poll' = PollIdle
    /\ UNCHANGED <<outside, guest, status, sync, exec, pending, history>>

\* The status is patched only if the answer is news to the copy that was read.
PollPatches ==
    /\ poll.pc = "patch" /\ poll' = PollIdle
    /\ \/ /\ UNCHANGED faults
          /\ target' = IF poll.found = poll.was THEN target
                       ELSE [target EXCEPT !.running = poll.found]
       \/ Fault("patch") /\ UNCHANGED target
    /\ UNCHANGED <<outside, guest, cached, sync, exec, pending, history>>

Poll == PollReads \/ PollLooksUp \/ PollProbes \/ PollFails \/ PollPatches

----------------------------------------------------------------------------
(* The sync of the cluster controller *)

\* The resources of the cluster, then the cached targets.
SyncFetches ==
    /\ side = "status" /\ sync.pc = "idle"
    /\ sync' = [pc |-> "patch", node |-> vm.node, was |-> cached]
    /\ UNCHANGED <<outside, guest, status, poll, exec, pending, history, faults>>

\* No endpoint answers: every target the cache shows as running is to be stopped.
SyncFetchFails ==
    /\ side = "status" /\ sync.pc = "idle" /\ Fault("down")
    /\ sync' = [pc |-> "mark", node |-> NoNode, was |-> cached]
    /\ UNCHANGED <<outside, guest, status, poll, exec, pending, history>>

SyncPatches ==
    /\ sync.pc \in {"patch", "mark"} /\ sync' = SyncIdle
    /\ \/ /\ UNCHANGED faults
          /\ target' = CASE sync.pc = "patch" /\ sync.node # sync.was.node ->
                                [target EXCEPT !.node = sync.node]
                         [] sync.pc = "mark" /\ sync.was.running ->
                                [target EXCEPT !.running = FALSE]
                         [] OTHER -> target
       \/ Fault("patch") /\ UNCHANGED target
    /\ UNCHANGED <<outside, guest, cached, poll, exec, pending, history>>

Sync == SyncFetches \/ SyncFetchFails \/ SyncPatches

----------------------------------------------------------------------------
(* The provider in a reconcile that applies: CheckReady, then ExecScript *)

\* New binds the provider to the node the cache has, which may be any by now.
New ==
    /\ side = "calls" /\ exec.pc = "idle" /\ exec.call < MaxCalls
    /\ exec' \in [pc : {"ready"}, known : Nodes \cup {NoNode}, node : {NoNode},
                  ep : {1}, call : {exec.call}]
    /\ UNCHANGED <<outside, guest, status, poll, sync, pending, history, faults>>

resolveNode == IF exec.known # NoNode THEN exec.known ELSE vm.node

\* The ping and the exec of systemctl.
CheckReady ==
    /\ exec.pc = "ready"
    /\ IF Reachable(resolveNode)
       THEN exec' = [exec EXCEPT !.pc = "wait", !.node = resolveNode] /\ show' = "runs"
       ELSE exec' = ExecIdle(exec.call) /\ UNCHANGED show
    /\ UNCHANGED <<outside, file, runs, status, poll, sync, pending, history, faults>>

\* Mutant of StatusFails: the loop polls on after an error.
StatusFailsIgnored == FALSE
StatusFails == ~Reachable(exec.node) \/ show = "none"

\* exec-status until it has exited, without a deadline; then the router is ready
\* or it is not.
CheckReadyEnds ==
    /\ exec.pc = "wait"
    /\ exec' \in IF StatusFails THEN {ExecIdle(exec.call)}
                 ELSE IF Reachable(exec.node) /\ show = "ended"
                 THEN {[exec EXCEPT !.pc = "resolve", !.node = NoNode], ExecIdle(exec.call)}
                 ELSE {}
    /\ UNCHANGED <<outside, guest, status, poll, sync, pending, history, faults>>

ExecScript ==
    /\ exec.pc = "resolve"
    /\ exec' = IF resolveNode = NoNode THEN ExecIdle(exec.call)
               ELSE [exec EXCEPT !.pc = "write", !.node = resolveNode, !.ep = 1,
                                 !.call = @ + 1]
    /\ UNCHANGED <<outside, guest, status, poll, sync, pending, history, faults>>

CallFails ==
    /\ exec.pc \in {"ready", "wait", "resolve"} /\ Fault("down")
    /\ exec' = ExecIdle(exec.call)
    /\ UNCHANGED <<outside, guest, status, poll, sync, pending, history>>

\* What a request does to the guest once an endpoint carries it out.
CarryOut(kind, n) ==
    IF kind = "write" THEN file' = n /\ UNCHANGED <<show, runs>>
    ELSE runs' = Append(runs, [call |-> n, file |-> file]) /\ UNCHANGED <<file, show>>

\* Mutant of Answered: tryDo goes through all the endpoints.
AnsweredByAll ==
    IF exec.ep < Endpoints THEN [exec EXCEPT !.ep = @ + 1]
    ELSE IF exec.pc = "write" THEN [exec EXCEPT !.pc = "exec", !.ep = 1]
    ELSE ExecIdle(exec.call)
\* After an answer: the file is written, next its exec; or the pid is there.
Answered == IF exec.pc = "write" THEN [exec EXCEPT !.pc = "exec", !.ep = 1]
            ELSE ExecIdle(exec.call)

\* Mutant of AllFailed: the exec goes out though the file-write failed.
AllFailedIgnored == Answered
AllFailed == ExecIdle(exec.call)

\* tryDo: the first endpoint that answers decides, with an error if the VM is not
\* there or not up.
PostAnswered ==
    /\ exec.pc \in {"write", "exec"}
    /\ IF Reachable(exec.node)
       THEN /\ CarryOut(exec.pc, exec.call) /\ exec' = Answered
            /\ handle' = IF exec.pc = "write" THEN handle
                         ELSE [handle EXCEPT ![exec.call] = Len(runs')]
       ELSE exec' = ExecIdle(exec.call) /\ UNCHANGED <<guest, handle>>
    /\ UNCHANGED <<outside, status, poll, sync, pending, unanswered, overtaken, faults>>

\* Mutant of MoreEndpoints: the list is left one too late.
MoreEndpointsOff == exec.ep <= Endpoints
MoreEndpoints == exec.ep < Endpoints

\* A network error, after which the next endpoint is asked: the request did not
\* arrive, or its answer did not, or it is carried out later.
Request == [kind |-> exec.pc, call |-> exec.call, node |-> exec.node, ep |-> exec.ep]
Unanswered ==
    IF exec.pc = "exec" THEN [unanswered EXCEPT ![exec.call] = @ + 1] ELSE unanswered
PostFails ==
    /\ exec.pc \in {"write", "exec"}
    /\ \/ Fault("down") /\ UNCHANGED <<guest, pending, unanswered>>
       \/ /\ unanswered' = Unanswered
          /\ \/ /\ Fault("lost") /\ Reachable(exec.node)
                /\ CarryOut(exec.pc, exec.call) /\ UNCHANGED pending
             \/ Fault("late") /\ pending' = pending \cup {Request} /\ UNCHANGED guest
    /\ exec' = IF MoreEndpoints THEN [exec EXCEPT !.ep = @ + 1] ELSE AllFailed
    /\ UNCHANGED <<outside, status, poll, sync, handle, overtaken>>

Exec == New \/ CheckReady \/ CheckReadyEnds \/ ExecScript \/ CallFails
        \/ PostAnswered \/ PostFails

----------------------------------------------------------------------------
(* Outside: the cluster, the VM, the API server *)

CarriedOutLate ==
    /\ \E r \in pending :
          /\ Reachable(r.node) /\ CarryOut(r.kind, r.call)
          /\ pending' = pending \ {r}
          /\ overtaken' = (overtaken \/ (r.kind = "write" /\ r.call # exec.call))
    /\ UNCHANGED <<outside, status, poll, sync, exec, handle, unanswered, faults>>

CommandEnds ==
    /\ show = "runs"
    /\ \/ show' = "ended" /\ UNCHANGED faults
       \/ show' = "hangs" /\ Fault("hang")
    /\ UNCHANGED <<outside, file, runs, status, poll, sync, exec, pending, history>>

\* The VM migrates, stops, starts, is destroyed, and its VMID is used again.
Move ==
    /\ moves < MaxMoves /\ moves' = moves + 1
    /\ \/ /\ vm.node # NoNode
          /\ \E node \in Nodes \ {vm.node} : vm' = [vm EXCEPT !.node = node]
          /\ UNCHANGED <<file, show>>
       \/ vm.up /\ vm' = [vm EXCEPT !.up = FALSE] /\ show' = "none" /\ UNCHANGED file
       \/ /\ vm.node # NoNode /\ ~vm.up /\ vm' = [vm EXCEPT !.up = TRUE]
          /\ UNCHANGED <<file, show>>
       \/ /\ vm.node # NoNode /\ vm' = [node |-> NoNode, up |-> FALSE]
          /\ file' = 0 /\ show' = "none"
       \/ /\ vm.node = NoNode /\ vm' \in [node : Nodes, up : {TRUE}]
          /\ UNCHANGED <<file, show>>
    /\ UNCHANGED <<side, runs, status, poll, sync, exec, pending, history, faults>>

SyncCache ==
    /\ cached # target /\ cached' = target
    /\ UNCHANGED <<outside, guest, target, poll, sync, exec, pending, history, faults>>

OperatorRestart ==
    /\ Fault("operator")
    /\ poll' = PollIdle /\ sync' = SyncIdle
    /\ exec' = ExecIdle(exec.call) /\ cached' = target
    /\ UNCHANGED <<outside, guest, target, pending, history>>

Next ==
    \/ Poll \/ Sync \/ Exec
    \/ CarriedOutLate \/ CommandEnds \/ Move \/ SyncCache \/ OperatorRestart

\* Both periodic reconciles, the config worker, the informer and the guest go on;
\* nothing obliges an endpoint to carry out what was given up, or the VM to move.
Fairness ==
    /\ WF_vars(Poll) /\ WF_vars(Sync) /\ WF_vars(Exec)
    /\ WF_vars(SyncCache) /\ WF_vars(CommandEnds)

Spec == Init /\ [][Next]_vars
FairSpec == Spec /\ Fairness

----------------------------------------------------------------------------
(* Properties *)

Vms == [node : Nodes, up : BOOLEAN] \cup [node : {NoNode}, up : {FALSE}]
Statuses == [node : Nodes \cup {NoNode}, running : BOOLEAN]
Polls == [pc : {"idle", "lookup", "probe", "patch"}, node : Nodes \cup {NoNode},
          was : BOOLEAN, found : BOOLEAN]
Syncs == [pc : {"idle", "patch", "mark"}, node : Nodes \cup {NoNode}, was : Statuses]
Execs == [pc : {"idle", "ready", "wait", "resolve", "write", "exec"},
          known : Nodes \cup {NoNode}, node : Nodes \cup {NoNode},
          ep : 1..Endpoints, call : 0..MaxCalls]
Requests == [kind : {"write", "exec"}, call : Calls, node : Nodes, ep : 1..Endpoints]
Runs == [call : Calls, file : 0..MaxCalls]

\* The variables keep their types, and no more requests go out than there are endpoints.
TypeOK ==
    /\ side \in {"status", "calls"} /\ vm \in Vms
    /\ file \in 0..MaxCalls /\ show \in {"none", "runs", "ended", "hangs"} /\ runs \in Seq(Runs)
    /\ target \in Statuses /\ cached \in Statuses
    /\ poll \in Polls /\ (poll.pc = "probe" => poll.node # NoNode)
    /\ sync \in Syncs /\ exec \in Execs /\ pending \subseteq Requests
    /\ handle \in [Calls -> Nat] /\ unanswered \in [Calls -> 0..Endpoints]
    /\ overtaken \in BOOLEAN /\ moves \in 0..MaxMoves /\ faults \in 0..MaxFaults

\* A script that runs is the one whose pid its call returned, or the answer to its
\* own start never came: failing over to another endpoint starts a script twice
\* only where tryDo could not know, and a call that failed earlier started none.
RunsOf(n) == {i \in DOMAIN runs : runs[i].call = n}
ExtraRunsUnanswered ==
    \A n \in Calls : Cardinality(RunsOf(n) \ {handle[n]}) <= unanswered[n]

\* The pid that ExecScript returns is of a run of the script it rendered: whatever
\* failed over, got lost or moved, no other script is taken for it; at worst, on a
\* new VM, there is none.  But for a file-write that an earlier call gave up and
\* that is carried out in between.
RunsOwnScript ==
    \A n \in Calls : handle[n] # 0 =>
        LET r == runs[handle[n]] IN r.call = n /\ (r.file \in {0, n} \/ overtaken)

\* When the VM has come to rest its status does too, and is right: neither the
\* races between poll and sync nor a node that is no longer true are for good.
StatusSettles == side = "status" => <>[](target = [node |-> vm.node, running |-> vm.up])

\* A reconcile gets out of the provider, also when the VM stops, moves or goes in
\* the middle of CheckReady; but not while the command it waits for hangs, and
\* meanwhile the one worker serves no other config.
CallsReturn == exec.pc # "idle" ~> (exec.pc = "idle" \/ show = "hangs")

=============================================================================
