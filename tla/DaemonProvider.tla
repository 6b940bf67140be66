-------------------------- MODULE DaemonProvider ---------------------------
(***************************************************************************)
(* The vrouter-daemon provider (internal/provider/daemon/provider.go): one *)
(* registry of background ApplyConfig calls per operator process, shared   *)
(* by every VRouterConfig whose target is a daemon, and the handles those  *)
(* configs keep in status.execPID across operator restarts.                *)
(*                                                                         *)
(* The config controller has one worker, so one reconcile runs at a time;  *)
(* the calls end in goroutines of their own.  VRouterConfig models the     *)
(* reconcile of one config in detail; here it is ExecScript or             *)
(* GetExecStatus followed by one status patch.  Agents are connected.      *)
(***************************************************************************)
EXTENDS Naturals, Sequences, FiniteSets

CONSTANTS
    Configs,       \* VRouterConfigs with a daemon target
    MaxCalls,      \* bound: ApplyConfig calls
    MaxRestarts,   \* bound: operator restarts
    MaxFaults      \* bound: broken calls, failed patches, timeouts, recreations

ASSUME DaemonBounds == {MaxCalls, MaxRestarts, MaxFaults} \subseteq Nat

VARIABLES
    execMap,     \* the registry: the call behind each handle
    pidSeq,      \* the last handle given out
    calls,       \* ApplyConfig calls in the order they started
    status,      \* phase and execPID of each config
    work,        \* the status patch of the reconcile under way, or Nothing
    abandoned,   \* history: handles no config will ask for again
    restarts, faults

vars == <<execMap, pidSeq, calls, status, work, abandoned, restarts, faults>>

Ends == {"ok", "fail", "broken"}
Calls == [cfg : Configs, st : Ends \cup {"running", "gone"}]
Statuses == [phase : {"Pending", "Applying", "Applied", "Failed"}, pid : Nat]

\* call is the call whose result the patch reports, 0 for none.
Patch(c, phase, pid, call) == [cfg |-> c, phase |-> phase, pid |-> pid, call |-> call]
Nothing == [cfg |-> {}, phase |-> "none", pid |-> 0, call |-> 0]
Idle == work = Nothing
Fault == faults < MaxFaults /\ faults' = faults + 1

Init ==
    /\ execMap = <<>> /\ pidSeq = 0 /\ calls = <<>>
    /\ status = [c \in Configs |-> [phase |-> "Pending", pid |-> 0]]
    /\ work = Nothing
    /\ abandoned = 0 /\ restarts = 0 /\ faults = 0

\* Mutants of NextHandle: the counter is read and not advanced; the first handle
\* that is free, instead of a new one.
NextHandleRead == pidSeq
NextHandleFree == CHOOSE h \in 1..(MaxCalls + 1) :
                      h \notin DOMAIN execMap /\ \A i \in 1..(h - 1) : i \in DOMAIN execMap
\* atomic.AddInt64(&pidSeq, 1)
NextHandle == pidSeq + 1

\* ExecScript: register an entry, start the call in the background.
ExecScript(c) ==
    /\ Idle /\ status[c].phase = "Pending" /\ status[c].pid = 0 /\ Len(calls) < MaxCalls
    /\ pidSeq' = NextHandle
    /\ calls' = Append(calls, [cfg |-> c, st |-> "running"])
    /\ execMap' = [h \in DOMAIN execMap \cup {NextHandle} |->
                       IF h = NextHandle THEN Len(calls) + 1 ELSE execMap[h]]
    /\ work' = Patch(c, "Applying", NextHandle, 0)
    /\ UNCHANGED <<status, abandoned, restarts, faults>>

\* The goroutine: the call returns, or fails or meets its deadline.
CallEnds(i) ==
    /\ calls[i].st = "running"
    /\ \/ \E end \in {"ok", "fail"} : calls' = [calls EXCEPT ![i].st = end]
          /\ UNCHANGED faults
       \/ Fault /\ calls' = [calls EXCEPT ![i].st = "broken"]
    /\ UNCHANGED <<execMap, pidSeq, status, work, abandoned, restarts>>

\* Mutants of Take and Lost: the entry stays; the lost handle is asked for again.
TakeKeeps(h) == execMap
LostRetried(c) == Nothing
Take(h) == [g \in DOMAIN execMap \ {h} |-> execMap[g]]
Lost(c) == Patch(c, "Pending", 0, 0)

\* GetExecStatus and what pollExecStatus makes of it.  A broken call is an error, which is
\* retried, or reported once execApplyTimeout has passed.
Polling(c) == Idle /\ status[c].pid > 0

PollLost(c) ==
    /\ Polling(c) /\ status[c].pid \notin DOMAIN execMap
    /\ work' = Lost(c)
    /\ UNCHANGED <<execMap, pidSeq, calls, status, abandoned, restarts, faults>>

PollDone(c) ==
    /\ Polling(c) /\ status[c].pid \in DOMAIN execMap
    /\ LET h == status[c].pid
           i == execMap[h]
       IN /\ calls[i].st \in Ends
          /\ execMap' = Take(h)
          /\ work' \in CASE calls[i].st = "ok" -> {Patch(c, "Applied", 0, i)}
                         [] calls[i].st = "fail" -> {Patch(c, "Failed", 0, i)}
                         [] OTHER -> {Nothing, Patch(c, "Failed", 0, 0)}
    /\ UNCHANGED <<pidSeq, calls, status, abandoned, restarts, faults>>

\* execApplyTimeout passed while the call runs: the handle is let go.
PollTimedOut(c) ==
    /\ Polling(c) /\ status[c].pid \in DOMAIN execMap
    /\ calls[execMap[status[c].pid]].st = "running" /\ Fault
    /\ work' = Patch(c, "Failed", 0, 0)
    /\ abandoned' = abandoned + 1
    /\ UNCHANGED <<execMap, pidSeq, calls, status, restarts>>

PatchStatus ==
    /\ ~Idle
    /\ status' = [status EXCEPT ![work.cfg] = [phase |-> work.phase, pid |-> work.pid]]
    /\ work' = Nothing
    /\ UNCHANGED <<execMap, pidSeq, calls, abandoned, restarts, faults>>

\* The patch fails: a handle just given out is never recorded.
PatchStatusFails ==
    /\ ~Idle /\ Fault
    /\ work' = Nothing
    /\ abandoned' = IF work.pid > 0 THEN abandoned + 1 ELSE abandoned
    /\ UNCHANGED <<execMap, pidSeq, calls, status, restarts>>

\* A new generation, or a reboot, of a config that is done.
Reapply(c) ==
    /\ Idle /\ status[c].phase \in {"Applied", "Failed"} /\ Len(calls) < MaxCalls
    /\ status' = [status EXCEPT ![c].phase = "Pending"]
    /\ UNCHANGED <<execMap, pidSeq, calls, work, abandoned, restarts, faults>>

\* The config is deleted and created anew; onDelete does not look at execPID.
Recreate(c) ==
    /\ Idle /\ Fault
    /\ status' = [status EXCEPT ![c] = [phase |-> "Pending", pid |-> 0]]
    /\ abandoned' = IF status[c].pid \in DOMAIN execMap THEN abandoned + 1 ELSE abandoned
    /\ UNCHANGED <<execMap, pidSeq, calls, work, restarts>>

\* A new process: the registry is empty and the handles start over; the goroutines
\* are gone, their calls end for nobody.
OperatorRestart ==
    /\ restarts < MaxRestarts /\ restarts' = restarts + 1
    /\ execMap' = <<>> /\ pidSeq' = 0 /\ work' = Nothing /\ abandoned' = 0
    /\ calls' = [i \in DOMAIN calls |-> [calls[i] EXCEPT !.st = "gone"]]
    /\ UNCHANGED <<status, faults>>

Reconcile == (\E c \in Configs : ExecScript(c) \/ PollLost(c) \/ PollDone(c)) \/ PatchStatus
Return == \E i \in DOMAIN calls : CallEnds(i)

Next ==
    \/ Reconcile \/ Return
    \/ \E c \in Configs : PollTimedOut(c) \/ Reapply(c) \/ Recreate(c)
    \/ PatchStatusFails \/ OperatorRestart

\* The requeues of the config controller poll every handle, and every call has a
\* deadline (timeoutSeconds + 10).
Fairness ==
    /\ \A c \in Configs : /\ SF_vars(ExecScript(c))
                          /\ SF_vars(PollLost(c)) /\ SF_vars(PollDone(c))
    /\ WF_vars(PatchStatus) /\ WF_vars(Return)

Spec == Init /\ [][Next]_vars
FairSpec == Spec /\ Fairness

----------------------------------------------------------------------------
(* Properties *)

\* The variables keep their types (execMap, pidSeq and execEntry).
TypeOK ==
    /\ DOMAIN execMap \subseteq 1..pidSeq /\ pidSeq \in Nat
    /\ calls \in Seq(Calls)
    /\ \A h \in DOMAIN execMap : execMap[h] \in DOMAIN calls
    /\ status \in [Configs -> Statuses]
    /\ work.cfg \in Configs \/ Idle
    /\ {abandoned, restarts, faults} \subseteq Nat

\* The result a config is about to record is that of its own call, and of its
\* last one: after a restart "the handle is gone for good, so retrying
\* GetExecStatus with the same handle will never succeed" (ErrExecResultLost).
ResultIsOwn ==
    work.call > 0 =>
        /\ calls[work.call].cfg = work.cfg
        /\ \A j \in DOMAIN calls : j > work.call => calls[j].cfg # work.cfg

\* While one operator process lives, a handle is never given out twice, so that
\* does hold, whatever is abandoned, deleted or left unpatched (pidSeq).
OwnBeforeRestart == restarts = 0 => ResultIsOwn

\* The registry holds one entry per config that waits for one, and beyond that
\* only those whose config timed out, was deleted, or never learned its handle:
\* GetExecStatus deletes what it reports.
RegistryBounded ==
    Cardinality(DOMAIN execMap) <= Cardinality(Configs) + abandoned

\* Whatever restarts, broken calls and failed patches happen, no config waits
\* forever for a handle: it is reported, lost and dispatched again, or given up.
Settled == \A c \in Configs : status[c].pid = 0
                 /\ (status[c].phase \in {"Applied", "Failed"} \/ Len(calls) = MaxCalls)
Settles == <>[]Settled

=============================================================================
