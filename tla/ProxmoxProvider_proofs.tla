----------------------- MODULE ProxmoxProvider_proofs -----------------------
(***************************************************************************)
(* Proofs about ProxmoxProvider: its type invariant, that the pid a call   *)
(* returns is of its own script, and that failing over between endpoints   *)
(* starts no script more often than answers were lost, for any number of   *)
(* nodes, endpoints, calls and faults.                                     *)
(***************************************************************************)
EXTENDS ProxmoxProvider, FiniteSetTheorems, SequenceTheorems, TLAPS

----------------------------------------------------------------------------
(* Types *)

\* A request that changes the guest has a node and a call that New allowed.
Progress ==
    /\ exec.pc \in {"ready", "wait", "resolve"} => exec.call < MaxCalls
    /\ exec.pc \in {"write", "exec"} => exec.call \in Calls /\ exec.node \in Nodes

\* A call has no pid before the end, and an exec unanswered at each endpoint at most.
Fresh ==
    \A n \in Calls :
        /\ exec.call < n \/ (exec.call = n /\ exec.pc = "write")
               => unanswered[n] = 0 /\ handle[n] = 0
        /\ exec.call = n /\ exec.pc = "exec" => unanswered[n] < exec.ep /\ handle[n] = 0

TypeInv == TypeOK /\ Progress /\ Fresh

LEMMA IdleType ==
    /\ PollIdle \in Polls /\ SyncIdle \in Syncs
    /\ \A n \in 0..MaxCalls : ExecIdle(n) \in Execs
BY ProviderAssumption DEF PollIdle, SyncIdle, ExecIdle, Polls, Syncs, Execs, Statuses

LEMMA FaultType == ASSUME TypeOK, NEW kind, Fault(kind) PROVE faults' \in 0..MaxFaults
BY ProviderAssumption DEF TypeOK, Fault

LEMMA TypeInit == Init => TypeInv
<1> SUFFICES ASSUME Init PROVE TypeInv
  OBVIOUS
<1> USE ProviderAssumption
<1>1. poll \in Polls /\ sync \in Syncs /\ exec \in Execs
  BY IdleType DEF Init
<1>2. target \in Statuses /\ cached \in Statuses /\ vm \in Vms
  BY DEF Init, Statuses, Vms
<1>3. exec.pc = "idle" /\ exec.call = 0 /\ poll.pc = "idle"
  BY DEF Init, ExecIdle, PollIdle
<1>4. /\ handle \in [Calls -> {0}] /\ unanswered \in [Calls -> {0}]
  BY DEF Init
<1>5. /\ side \in {"status", "calls"} /\ file = 0 /\ show = "none" /\ runs = <<>>
      /\ pending = {} /\ overtaken = FALSE /\ moves = 0 /\ faults = 0
  BY DEF Init
<1>6. /\ file \in 0..MaxCalls /\ moves \in 0..MaxMoves /\ faults \in 0..MaxFaults
      /\ runs \in Seq(Runs)
      /\ handle \in [Calls -> Nat] /\ unanswered \in [Calls -> 0..Endpoints]
  BY <1>4, <1>5
<1>7. TypeOK
  BY <1>1, <1>2, <1>3, <1>5, <1>6 DEF TypeOK
<1> QED
  BY <1>3, <1>4, <1>7 DEF TypeInv, Progress, Fresh

\* A step that moves the call on only by giving it up, or not at all.
LEMMA TypeAway ==
    ASSUME TypeInv, TypeOK', UNCHANGED <<handle, unanswered>>,
           exec' = exec \/ exec' = ExecIdle(exec.call)
    PROVE  TypeInv'
<1>1. exec' = exec \/ (exec'.call = exec.call /\ exec'.pc = "idle")
  BY DEF ExecIdle
<1> QED
  BY <1>1 DEF TypeInv, Progress, Fresh

LEMMA TypePoll == TypeInv /\ Poll => TypeInv'
<1> SUFFICES ASSUME TypeInv, Poll PROVE TypeInv'
  OBVIOUS
<1>1. UNCHANGED <<side, vm, moves, file, show, runs, cached, sync, exec, pending, handle,
                  unanswered, overtaken>>
  BY DEF Poll, PollReads, PollLooksUp, PollProbes, PollFails, PollPatches, outside, guest,
         status, history
<1>2. faults' \in 0..MaxFaults
  BY FaultType
     DEF Poll, PollReads, PollLooksUp, PollProbes, PollFails, PollPatches, TypeInv, TypeOK
<1>3. target' \in Statuses
  <2>1. \A x \in BOOLEAN : [target EXCEPT !.running = x] \in Statuses
    BY DEF TypeInv, TypeOK, Statuses
  <2>2. poll.found \in BOOLEAN /\ target \in Statuses
    BY DEF TypeInv, TypeOK, Polls
  <2> QED
    BY <2>1, <2>2
       DEF Poll, PollReads, PollLooksUp, PollProbes, PollFails, PollPatches, status
<1>4. poll' \in Polls /\ (poll'.pc = "probe" => poll'.node # NoNode)
  <2>1. poll \in Polls /\ (poll.pc = "probe" => poll.node # NoNode)
    BY DEF TypeInv, TypeOK, Polls
  <2>2. vm.node \in Nodes \cup {NoNode} /\ vm.up \in BOOLEAN
    BY DEF TypeInv, TypeOK, Vms
  <2>3. CASE PollReads
    BY <2>3 DEF PollReads, Polls, TypeInv, TypeOK, Statuses
  <2>4. CASE PollLooksUp
    BY <2>1, <2>2, <2>4 DEF PollLooksUp, NotListed, Polls
  <2>5. CASE PollProbes
    <3>1. PollIdle \in Polls /\ PollIdle.pc = "idle"
      BY IdleType DEF PollIdle
    <3> QED
      BY <2>1, <2>2, <2>5, <3>1 DEF PollProbes, Polls
  <2>6. CASE PollFails \/ PollPatches
    <3>1. poll' = PollIdle
      BY <2>6 DEF PollFails, PollPatches
    <3> QED
      BY <3>1, IdleType DEF PollIdle
  <2> QED
    BY <2>3, <2>4, <2>5, <2>6 DEF Poll
<1>5. TypeOK'
  BY <1>1, <1>2, <1>3, <1>4 DEF TypeInv, TypeOK
<1> QED
  BY <1>1, <1>5, TypeAway

LEMMA TypeSync == TypeInv /\ Sync => TypeInv'
<1> SUFFICES ASSUME TypeInv, Sync PROVE TypeInv'
  OBVIOUS
<1>1. UNCHANGED <<side, vm, moves, file, show, runs, cached, poll, exec, pending, handle,
                  unanswered, overtaken>>
  BY DEF Sync, SyncFetches, SyncFetchFails, SyncPatches, outside, guest, status, history
<1>2. faults' \in 0..MaxFaults
  BY FaultType DEF Sync, SyncFetches, SyncFetchFails, SyncPatches, TypeInv, TypeOK
<1>3. target' \in Statuses
  <2>1. target \in Statuses /\ sync.node \in Nodes \cup {NoNode}
    BY DEF TypeInv, TypeOK, Syncs
  <2>2. [target EXCEPT !.node = sync.node] \in Statuses
        /\ [target EXCEPT !.running = FALSE] \in Statuses
    BY <2>1 DEF Statuses
  <2> QED
    BY <2>1, <2>2 DEF Sync, SyncFetches, SyncFetchFails, SyncPatches, status
<1>4. sync' \in Syncs
  <2>1. vm.node \in Nodes \cup {NoNode} /\ cached \in Statuses
    BY DEF TypeInv, TypeOK, Vms
  <2> QED
    BY <2>1, IdleType DEF Sync, SyncFetches, SyncFetchFails, SyncPatches, Syncs
<1>5. TypeOK'
  BY <1>1, <1>2, <1>3, <1>4 DEF TypeInv, TypeOK
<1> QED
  BY <1>1, <1>5, TypeAway

\* The steps of a reconcile in the provider that leave the guest's files alone.
LEMMA TypeCheck ==
    TypeInv /\ (New \/ CheckReady \/ CheckReadyEnds \/ ExecScript \/ CallFails) => TypeInv'
<1> SUFFICES ASSUME TypeInv, New \/ CheckReady \/ CheckReadyEnds \/ ExecScript \/ CallFails
             PROVE  TypeInv'
  OBVIOUS
<1> USE ProviderAssumption
<1>1. exec \in Execs /\ exec.call \in 0..MaxCalls /\ vm.node \in Nodes \cup {NoNode}
  BY DEF TypeInv, TypeOK, Execs, Vms
<1>2. resolveNode \in Nodes \cup {NoNode}
  BY <1>1 DEF resolveNode, Execs
<1>3. /\ UNCHANGED <<side, vm, moves, file, runs, target, cached, poll, sync, pending, handle,
                     unanswered, overtaken>>
      /\ show' \in {show, "runs"}
  BY DEF New, CheckReady, CheckReadyEnds, ExecScript, CallFails, outside, guest, status, history
<1>4. faults' \in 0..MaxFaults
  BY FaultType DEF New, CheckReady, CheckReadyEnds, ExecScript, CallFails, TypeInv, TypeOK
<1>5. ASSUME exec' \in Execs PROVE TypeOK'
  BY <1>3, <1>4, <1>5 DEF TypeInv, TypeOK
<1>6. ASSUME exec' = ExecIdle(exec.call) PROVE TypeInv'
  BY <1>1, <1>3, <1>5, <1>6, IdleType, TypeAway
<1>7. ASSUME exec' \in Execs, exec'.call = exec.call, exec'.pc \in {"ready", "wait", "resolve"},
             exec.call < MaxCalls
      PROVE  TypeInv'
  BY <1>3, <1>5, <1>7 DEF TypeInv, Progress, Fresh
<1>8. CASE New
  <2>1. exec' \in Execs /\ exec'.call = exec.call /\ exec'.pc = "ready" /\ exec.call < MaxCalls
    BY <1>1, <1>8 DEF New, Execs
  <2> QED
    BY <1>7, <2>1
<1>9. CASE CheckReady
  <2>1. exec.call < MaxCalls
    BY <1>9 DEF CheckReady, TypeInv, Progress
  <2>2. CASE exec' = [exec EXCEPT !.pc = "wait", !.node = resolveNode]
    <3>1. exec' \in Execs /\ exec'.call = exec.call /\ exec'.pc = "wait"
      BY <1>1, <1>2, <2>2 DEF Execs
    <3> QED
      BY <1>7, <2>1, <3>1
  <2> QED
    BY <1>6, <1>9, <2>2 DEF CheckReady
<1>10. CASE CheckReadyEnds
  <2>1. exec.call < MaxCalls
    BY <1>10 DEF CheckReadyEnds, TypeInv, Progress
  <2>2. CASE exec' = [exec EXCEPT !.pc = "resolve", !.node = NoNode]
    <3>1. exec' \in Execs /\ exec'.call = exec.call /\ exec'.pc = "resolve"
      BY <1>1, <2>2 DEF Execs
    <3> QED
      BY <1>7, <2>1, <3>1
  <2>3. exec' = ExecIdle(exec.call) \/ exec' = [exec EXCEPT !.pc = "resolve", !.node = NoNode]
    BY <1>10 DEF CheckReadyEnds
  <2> QED
    BY <1>6, <2>2, <2>3
<1>11. CASE ExecScript
  <2>1. exec.call < MaxCalls
    BY <1>11 DEF ExecScript, TypeInv, Progress
  <2>2. CASE resolveNode # NoNode
    <3>1. exec' = [exec EXCEPT !.pc = "write", !.node = resolveNode, !.ep = 1, !.call = @ + 1]
      BY <1>11, <2>2 DEF ExecScript
    <3> DEFINE c == exec.call + 1
    <3>2. c \in 0..MaxCalls
      BY <1>1, <2>1
    <3>3. /\ exec' \in Execs /\ exec'.pc = "write" /\ exec'.call = exec.call + 1
          /\ exec'.node = resolveNode
      <4>1. exec' = [exec EXCEPT !.pc = "write", !.node = resolveNode, !.ep = 1, !.call = c]
        BY <3>1
      <4> HIDE DEF c
      <4>2. /\ exec' \in Execs /\ exec'.pc = "write" /\ exec'.call = c
            /\ exec'.node = resolveNode
        <5>1. exec' = [pc |-> "write", known |-> exec.known, node |-> resolveNode, ep |-> 1,
                       call |-> c]
          BY <1>1, <4>1 DEF Execs
        <5>2. exec.known \in Nodes \cup {NoNode} /\ 1 \in 1..Endpoints
          BY <1>1 DEF Execs
        <5> QED
          BY <1>2, <3>2, <5>1, <5>2 DEF Execs
      <4> QED
        BY <4>2 DEF c
    <3>4. exec'.call \in Calls /\ exec'.node \in Nodes
      BY <1>1, <1>2, <2>1, <2>2, <3>3 DEF Calls
    <3>5. \A n \in Calls : exec'.call <= n => exec.call < n
      BY <1>1, <3>3 DEF Calls
    <3>6. Fresh'
      <4>1. \A n \in Calls : n \in Nat
        BY DEF Calls
      <4> QED
        BY <1>1, <1>3, <3>3, <3>4, <3>5, <4>1 DEF TypeInv, Fresh
    <3> QED
      BY <1>5, <3>3, <3>4, <3>6 DEF TypeInv, Progress
  <2> QED
    BY <1>6, <1>11, <2>2 DEF ExecScript
<1>12. CASE CallFails
  BY <1>6, <1>12 DEF CallFails
<1> QED
  BY <1>8, <1>9, <1>10, <1>11, <1>12

\* What is carried out leaves a script on the guest, or starts the one that is there.
LEMMA CarryOutType ==
    ASSUME TypeInv, NEW kind, NEW n \in Calls, CarryOut(kind, n)
    PROVE  /\ file' \in 0..MaxCalls /\ show' = show /\ runs' \in Seq(Runs)
           /\ kind = "write" => file' = n /\ runs' = runs
           /\ kind # "write" => file' = file /\ runs' = Append(runs, [call |-> n, file |-> file])
<1>1. [call |-> n, file |-> file] \in Runs /\ runs \in Seq(Runs) /\ n \in 0..MaxCalls
  BY ProviderAssumption DEF TypeInv, TypeOK, Runs, Calls
<1>2. CASE kind = "write"
  BY <1>1, <1>2 DEF CarryOut, TypeInv, TypeOK
<1>3. CASE kind # "write"
  <2>1. /\ runs' = Append(runs, [call |-> n, file |-> file])
        /\ UNCHANGED <<file, show>>
    BY <1>3 DEF CarryOut
  <2>2. Append(runs, [call |-> n, file |-> file]) \in Seq(Runs)
    BY <1>1, AppendProperties
  <2> QED
    BY <1>3, <2>1, <2>2 DEF TypeInv, TypeOK
<1> QED
  BY <1>2, <1>3

LEMMA CallsNat == Calls \subseteq Nat \ {0} /\ \A n \in Calls : n \in 0..MaxCalls
BY ProviderAssumption DEF Calls

\* Where the reconcile is once it has an answer.
LEMMA AnsweredType ==
    ASSUME TypeInv, exec.pc \in {"write", "exec"}
    PROVE  /\ Answered \in Execs /\ Answered.call = exec.call
           /\ exec.pc = "write" => /\ Answered.pc = "exec" /\ Answered.ep = 1
                                   /\ Answered.node = exec.node
           /\ exec.pc = "exec" => Answered.pc = "idle"
<1>1. exec \in Execs /\ exec.call \in 0..MaxCalls /\ 1 \in 1..Endpoints
  BY ProviderAssumption DEF TypeInv, TypeOK, Execs
<1>2. CASE exec.pc = "write"
  <2>1. Answered = [exec EXCEPT !.pc = "exec", !.ep = 1]
    BY <1>2 DEF Answered
  <2> QED
    BY <1>1, <1>2, <2>1 DEF Execs
<1>3. CASE exec.pc = "exec"
  <2>1. Answered = ExecIdle(exec.call)
    BY <1>3 DEF Answered
  <2>2. Answered \in Execs
    BY <1>1, <2>1, IdleType
  <2> QED
    BY <1>3, <2>1, <2>2 DEF ExecIdle
<1> QED
  BY <1>2, <1>3

LEMMA TypeAnswered == TypeInv /\ PostAnswered => TypeInv'
<1> SUFFICES ASSUME TypeInv, PostAnswered PROVE TypeInv'
  OBVIOUS
<1>1. /\ UNCHANGED <<side, vm, moves, target, cached, poll, sync, pending, unanswered,
                     overtaken, faults>>
      /\ exec.pc \in {"write", "exec"} /\ exec.call \in Calls /\ exec.node \in Nodes
  BY DEF PostAnswered, outside, status, TypeInv, Progress
<1>2. CASE ~Reachable(exec.node)
  <2>1. exec' = ExecIdle(exec.call) /\ UNCHANGED <<file, show, runs, handle>>
    BY <1>2 DEF PostAnswered, guest
  <2>2. exec' \in Execs
    BY <1>1, <2>1, CallsNat, IdleType
  <2>3. TypeOK'
    BY <1>1, <2>1, <2>2 DEF TypeInv, TypeOK
  <2> QED
    BY <1>1, <2>1, <2>3, TypeAway
<1>3. CASE Reachable(exec.node)
  <2>1. /\ CarryOut(exec.pc, exec.call) /\ exec' = Answered
        /\ handle' = IF exec.pc = "write" THEN handle ELSE [handle EXCEPT ![exec.call] = Len(runs')]
    BY <1>3 DEF PostAnswered
  <2>2. file' \in 0..MaxCalls /\ show' = show /\ runs' \in Seq(Runs)
    BY <1>1, <2>1, CarryOutType
  <2>3. Len(runs') \in Nat
    BY <2>2, LenProperties
  <2>4. /\ handle' \in [Calls -> Nat]
        /\ \A n \in Calls : n # exec.call \/ exec.pc = "write" => handle'[n] = handle[n]
    BY <1>1, <2>1, <2>3 DEF TypeInv, TypeOK
  <2>5. /\ exec' \in Execs /\ exec'.call = exec.call
        /\ exec.pc = "write" => exec'.pc = "exec" /\ exec'.ep = 1 /\ exec'.node = exec.node
        /\ exec.pc = "exec" => exec'.pc = "idle"
    BY <1>1, <2>1, AnsweredType
  <2>6. TypeOK'
    BY <1>1, <2>2, <2>4, <2>5 DEF TypeInv, TypeOK
  <2>7. Progress'
    BY <1>1, <2>5 DEF Progress
  <2>8. Fresh'
    <3> SUFFICES ASSUME NEW n \in Calls
                 PROVE  /\ exec'.call < n \/ (exec'.call = n /\ exec'.pc = "write")
                               => unanswered'[n] = 0 /\ handle'[n] = 0
                        /\ exec'.call = n /\ exec'.pc = "exec"
                               => unanswered'[n] < exec'.ep /\ handle'[n] = 0
      BY DEF Fresh
    <3>1. exec.call \in Nat /\ n \in Nat
      BY <1>1, CallsNat
    <3>2. CASE exec.call < n
      BY <1>1, <2>4, <2>5, <3>1, <3>2 DEF TypeInv, Fresh
    <3>3. CASE exec.call >= n
      BY <1>1, <2>4, <2>5, <3>1, <3>3 DEF TypeInv, Fresh
    <3> QED
      BY <3>1, <3>2, <3>3
  <2> QED
    BY <2>6, <2>7, <2>8 DEF TypeInv
<1> QED
  BY <1>2, <1>3

\* A network error counts against the call if it was an exec that may have arrived.
LEMMA TypeFails == TypeInv /\ PostFails => TypeInv'
<1> SUFFICES ASSUME TypeInv, PostFails PROVE TypeInv'
  OBVIOUS
<1>1. /\ UNCHANGED <<side, vm, moves, target, cached, poll, sync, handle, overtaken>>
      /\ exec.pc \in {"write", "exec"} /\ exec.call \in Calls /\ exec.node \in Nodes
  BY DEF PostFails, outside, status, TypeInv, Progress
<1>2. faults' \in 0..MaxFaults
  BY FaultType DEF PostFails, TypeInv
<1>3. file' \in 0..MaxCalls /\ show' = show /\ runs' \in Seq(Runs)
  BY <1>1, CarryOutType DEF PostFails, guest, TypeInv, TypeOK
<1>4. pending' \subseteq Requests
  <2>1. Request \in Requests
    BY <1>1 DEF Request, Requests, TypeInv, TypeOK, Execs
  <2> QED
    BY <2>1 DEF PostFails, TypeInv, TypeOK
<1>5. exec \in Execs /\ exec.ep \in 1..Endpoints /\ exec.call \in Nat
  BY <1>1, CallsNat DEF TypeInv, TypeOK, Execs
<1>6. /\ unanswered' \in [Calls -> 0..Endpoints]
      /\ \A n \in Calls : n # exec.call \/ exec.pc = "write" => unanswered'[n] = unanswered[n]
      /\ exec.pc = "exec" => unanswered'[exec.call] <= exec.ep
  <2>1. unanswered' \in {unanswered, Unanswered}
    BY DEF PostFails
  <2>2. unanswered \in [Calls -> 0..Endpoints]
        /\ (exec.pc = "exec" => unanswered[exec.call] < exec.ep)
    BY <1>1 DEF TypeInv, TypeOK, Fresh
  <2>3. CASE exec.pc = "write"
    BY <2>1, <2>2, <2>3 DEF Unanswered
  <2>4. CASE exec.pc = "exec"
    <3> DEFINE u == unanswered[exec.call] + 1
    <3>1. u \in 0..Endpoints /\ u <= exec.ep
      BY <1>1, <1>5, <2>2, <2>4, ProviderAssumption
    <3>2. Unanswered = [unanswered EXCEPT ![exec.call] = u]
      BY <2>4 DEF Unanswered
    <3>3. unanswered[exec.call] <= exec.ep
      BY <1>1, <1>5, <2>2, <2>4, ProviderAssumption
    <3> HIDE DEF u
    <3> QED
      BY <1>1, <2>1, <2>2, <2>4, <3>1, <3>2, <3>3
  <2> QED
    BY <1>1, <2>3, <2>4
<1>7. CASE MoreEndpoints
  <2>1. exec' = [exec EXCEPT !.ep = @ + 1] /\ exec.ep + 1 \in 1..Endpoints
    BY <1>5, <1>7, ProviderAssumption DEF PostFails, MoreEndpoints
  <2>2. /\ exec' \in Execs /\ exec'.pc = exec.pc /\ exec'.call = exec.call
        /\ exec'.node = exec.node /\ exec'.ep = exec.ep + 1
    <3> DEFINE e == exec.ep + 1
    <3>1. exec' = [exec EXCEPT !.ep = e] /\ e \in 1..Endpoints
      BY <2>1
    <3> HIDE DEF e
    <3>2. /\ exec' \in Execs /\ exec'.pc = exec.pc /\ exec'.call = exec.call
          /\ exec'.node = exec.node /\ exec'.ep = e
      BY <1>5, <3>1 DEF Execs
    <3> QED
      BY <3>2 DEF e
  <2>3. TypeOK'
    BY <1>1, <1>2, <1>3, <1>4, <1>6, <2>2 DEF TypeInv, TypeOK
  <2>4. Progress'
    BY <1>1, <2>2 DEF Progress
  <2>5. Fresh'
    <3> SUFFICES ASSUME NEW n \in Calls
                 PROVE  /\ exec'.call < n \/ (exec'.call = n /\ exec'.pc = "write")
                               => unanswered'[n] = 0 /\ handle'[n] = 0
                        /\ exec'.call = n /\ exec'.pc = "exec"
                               => unanswered'[n] < exec'.ep /\ handle'[n] = 0
      BY DEF Fresh
    <3>1. n \in Nat /\ unanswered'[n] \in Nat
      BY <1>6, CallsNat, ProviderAssumption
    <3>2. CASE n # exec.call \/ exec.pc = "write"
      BY <1>1, <1>5, <1>6, <2>2, <3>1, <3>2 DEF TypeInv, Fresh
    <3>3. CASE n = exec.call /\ exec.pc = "exec"
      BY <1>1, <1>5, <1>6, <2>2, <3>1, <3>3 DEF TypeInv, Fresh
    <3> QED
      BY <1>1, <3>2, <3>3
  <2> QED
    BY <2>3, <2>4, <2>5 DEF TypeInv
<1>8. CASE ~MoreEndpoints
  <2>1. exec' = ExecIdle(exec.call)
    BY <1>8 DEF PostFails, AllFailed
  <2>2. exec' \in Execs /\ exec'.pc = "idle" /\ exec'.call = exec.call
    BY <1>1, <2>1, CallsNat, IdleType DEF ExecIdle
  <2>3. TypeOK'
    BY <1>1, <1>2, <1>3, <1>4, <1>6, <2>2 DEF TypeInv, TypeOK
  <2>4. Fresh'
    BY <1>1, <1>5, <1>6, <2>2 DEF TypeInv, Fresh
  <2> QED
    BY <2>2, <2>3, <2>4 DEF TypeInv, Progress
<1> QED
  BY <1>7, <1>8

LEMMA TypeWorld ==
    TypeInv /\ (CarriedOutLate \/ CommandEnds \/ Move \/ SyncCache \/ OperatorRestart) => TypeInv'
<1> SUFFICES ASSUME TypeInv, CarriedOutLate \/ CommandEnds \/ Move \/ SyncCache \/ OperatorRestart
             PROVE  TypeInv'
  OBVIOUS
<1>1. CASE CarriedOutLate
  <2>1. PICK r \in pending : CarryOut(r.kind, r.call) /\ pending' = pending \ {r}
                             /\ overtaken' = (overtaken \/ (r.kind = "write" /\ r.call # exec.call))
    BY <1>1 DEF CarriedOutLate
  <2>2. r.call \in Calls
    BY DEF TypeInv, TypeOK, Requests
  <2>3. file' \in 0..MaxCalls /\ show' = show /\ runs' \in Seq(Runs)
    BY <2>1, <2>2, CarryOutType
  <2>4. UNCHANGED <<side, vm, moves, target, cached, poll, sync, exec, handle, unanswered, faults>>
    BY <1>1 DEF CarriedOutLate, outside, status
  <2>5. TypeOK'
    BY <2>1, <2>3, <2>4 DEF TypeInv, TypeOK
  <2> QED
    BY <2>4, <2>5, TypeAway
<1>2. CASE CommandEnds
  <2>1. UNCHANGED <<side, vm, moves, file, runs, target, cached, poll, sync, exec, pending, handle,
                    unanswered, overtaken>>
    BY <1>2 DEF CommandEnds, outside, status, history
  <2>2. show' \in {"ended", "hangs"} /\ faults' \in 0..MaxFaults
    BY <1>2, FaultType DEF CommandEnds, TypeInv, TypeOK
  <2>3. TypeOK'
    BY <2>1, <2>2 DEF TypeInv, TypeOK
  <2> QED
    BY <2>1, <2>3, TypeAway
<1>3. CASE Move
  <2>1. UNCHANGED <<side, runs, target, cached, poll, sync, exec, pending, handle, unanswered,
                    overtaken, faults>>
    BY <1>3 DEF Move, status, history
  <2>2. vm' \in Vms
    <3>1. /\ vm = [node |-> vm.node, up |-> vm.up]
          /\ vm.node # NoNode => vm.node \in Nodes /\ vm.up \in BOOLEAN
          /\ vm.node = NoNode => vm.up = FALSE
      <4>1. CASE vm \in [node : Nodes, up : BOOLEAN]
        BY <4>1, ProviderAssumption
      <4>2. CASE vm \in [node : {NoNode}, up : {FALSE}]
        BY <4>2
      <4> QED
        BY <4>1, <4>2 DEF TypeInv, TypeOK, Vms
    <3>2. \A node \in Nodes, up \in BOOLEAN : [node |-> node, up |-> up] \in Vms
      BY DEF Vms
    <3>3. [node |-> NoNode, up |-> FALSE] \in Vms
      BY DEF Vms
    <3>4. \/ \E node \in Nodes \cup {NoNode} : vm' = [node |-> node, up |-> FALSE]
          \/ \E node \in Nodes, up \in BOOLEAN : vm' = [node |-> node, up |-> up]
      BY <1>3, <3>1 DEF Move
    <3> QED
      BY <3>2, <3>3, <3>4
  <2>3. file' \in {file, 0} /\ show' \in {show, "none"}
    BY <1>3 DEF Move
  <2>4. moves' \in 0..MaxMoves
    BY <1>3, ProviderAssumption DEF Move, TypeInv, TypeOK
  <2>5. file' \in 0..MaxCalls
    BY <2>3, ProviderAssumption DEF TypeInv, TypeOK
  <2>6. TypeOK'
    BY <2>1, <2>2, <2>3, <2>4, <2>5 DEF TypeInv, TypeOK
  <2> QED
    BY <2>1, <2>6, TypeAway
<1>4. CASE SyncCache
  <2>1. UNCHANGED <<side, vm, moves, file, show, runs, target, poll, sync, exec, pending, handle,
                    unanswered, overtaken, faults>> /\ cached' = target
    BY <1>4 DEF SyncCache, outside, guest, history
  <2>2. TypeOK'
    BY <2>1 DEF TypeInv, TypeOK
  <2> QED
    BY <2>1, <2>2, TypeAway
<1>5. CASE OperatorRestart
  <2>1. /\ UNCHANGED <<side, vm, moves, file, show, runs, target, pending, handle, unanswered,
                       overtaken>>
        /\ cached' = target /\ poll' = PollIdle /\ sync' = SyncIdle /\ exec' = ExecIdle(exec.call)
    BY <1>5 DEF OperatorRestart, outside, guest, history
  <2>2. faults' \in 0..MaxFaults
    BY <1>5, FaultType DEF OperatorRestart, TypeInv
  <2>3. exec.call \in 0..MaxCalls
    BY DEF TypeInv, TypeOK, Execs
  <2>4. poll' \in Polls /\ poll'.pc # "probe" /\ sync' \in Syncs /\ exec' \in Execs
    BY <2>1, <2>3, IdleType DEF PollIdle
  <2>5. TypeOK'
    BY <2>1, <2>2, <2>4 DEF TypeInv, TypeOK
  <2> QED
    BY <2>1, <2>5, TypeAway
<1> QED
  BY <1>1, <1>2, <1>3, <1>4, <1>5

LEMMA TypeStep == TypeInv /\ [Next]_vars => TypeInv'
<1> SUFFICES ASSUME TypeInv, [Next]_vars PROVE TypeInv'
  OBVIOUS
<1>1. CASE UNCHANGED vars
  <2>1. UNCHANGED <<side, vm, moves, file, show, runs, target, cached, poll, sync, exec, pending,
                    handle, unanswered, overtaken, faults>>
    BY <1>1 DEF vars, outside, guest, status, history
  <2>2. TypeOK'
    BY <2>1 DEF TypeInv, TypeOK
  <2> QED
    BY <2>1, <2>2, TypeAway
<1> QED
  BY <1>1, TypePoll, TypeSync, TypeCheck, TypeAnswered, TypeFails, TypeWorld DEF Next, Exec

\* The types hold in every reachable state; so no call sends more requests than
\* there are endpoints, for any number of nodes, endpoints and calls.
THEOREM TypeCorrect == Spec => []TypeOK
<1>1. Spec => []TypeInv
  BY TypeInit, TypeStep, PTL DEF Spec
<1>2. TypeInv => TypeOK
  BY DEF TypeInv
<1> QED
  BY <1>1, <1>2, PTL

----------------------------------------------------------------------------
(* The script behind a pid.  The file that the exec starts is the one its  *)
(* own call wrote, from the answer to the file-write up to the exec; and   *)
(* what has been started is not changed again.                             *)

FileOwn == exec.pc = "exec" => file \in {0, exec.call} \/ overtaken

HandleOwn ==
    \A n \in Calls :
        /\ handle[n] \in 0..Len(runs)
        /\ handle[n] # 0 => /\ runs[handle[n]].call = n
                            /\ runs[handle[n]].file \in {0, n} \/ overtaken

ScriptInv == FileOwn /\ HandleOwn

LEMMA ScriptInit == Init => ScriptInv
BY DEF Init, ScriptInv, FileOwn, HandleOwn, ExecIdle

\* No script is started, and the call gets no nearer to its exec.
LEMMA ScriptKeeps ==
    ASSUME ScriptInv, UNCHANGED <<runs, handle, overtaken>>, file' \in {file, 0},
           exec' = exec \/ exec'.pc # "exec"
    PROVE  ScriptInv'
BY DEF ScriptInv, FileOwn, HandleOwn

\* One more script, or none, leaves those that were started what they are.
LEMMA ScriptRuns ==
    ASSUME TypeInv, HandleOwn, NEW x \in Runs, runs' = runs \/ runs' = Append(runs, x),
           overtaken => overtaken', handle' = handle
    PROVE  HandleOwn'
<1>1. runs \in Seq(Runs) /\ Len(runs) \in Nat
  BY LenProperties DEF TypeInv, TypeOK
<1>2. /\ Len(runs') \in Nat /\ Len(runs') >= Len(runs)
      /\ \A i \in 1..Len(runs) : runs'[i] = runs[i]
  BY <1>1, AppendProperties
<1>3. \A n \in Calls : handle[n] \in Nat
  BY DEF TypeInv, TypeOK
<1> QED
  BY <1>1, <1>2, <1>3 DEF HandleOwn

LEMMA ScriptAnswered == TypeInv /\ ScriptInv /\ PostAnswered => ScriptInv'
<1> SUFFICES ASSUME TypeInv, ScriptInv, PostAnswered PROVE ScriptInv'
  OBVIOUS
<1>1. exec.call \in Calls /\ exec.pc \in {"write", "exec"} /\ overtaken' = overtaken
  BY DEF PostAnswered, TypeInv, Progress
<1>2. CASE ~Reachable(exec.node)
  BY <1>2, ScriptKeeps DEF PostAnswered, guest, ExecIdle
<1>3. CASE Reachable(exec.node) /\ exec.pc = "write"
  <2>1. CarryOut(exec.pc, exec.call) /\ exec' = Answered /\ handle' = handle
    BY <1>3 DEF PostAnswered
  <2>2. exec'.call = exec.call /\ file' = exec.call /\ runs' = runs
    BY <1>1, <1>3, <2>1, AnsweredType, CarryOutType
  <2> QED
    BY <1>1, <2>1, <2>2 DEF ScriptInv, FileOwn, HandleOwn
<1>4. CASE Reachable(exec.node) /\ exec.pc = "exec"
  <2> DEFINE x == [call |-> exec.call, file |-> file]
  <2>1. /\ CarryOut(exec.pc, exec.call) /\ exec' = Answered
        /\ handle' = [handle EXCEPT ![exec.call] = Len(runs')]
    BY <1>4 DEF PostAnswered
  <2>2. exec'.pc = "idle" /\ file' = file /\ runs' = Append(runs, x)
    BY <1>1, <1>4, <2>1, AnsweredType, CarryOutType
  <2>3. x \in Runs /\ runs \in Seq(Runs) /\ Len(runs) \in Nat
    BY <1>1, LenProperties DEF TypeInv, TypeOK, Runs
  <2>4. /\ Len(runs') = Len(runs) + 1 /\ runs'[Len(runs) + 1] = x
        /\ \A i \in 1..Len(runs) : runs'[i] = runs[i]
    <3> HIDE DEF x
    <3> QED
      BY <2>2, <2>3, AppendProperties
  <2>5. x.file \in {0, exec.call} \/ overtaken
    BY <1>4 DEF ScriptInv, FileOwn
  <2>6. HandleOwn'
    <3> SUFFICES ASSUME NEW n \in Calls
                 PROVE  /\ handle'[n] \in 0..Len(runs')
                        /\ handle'[n] # 0 =>
                               /\ runs'[handle'[n]].call = n
                               /\ runs'[handle'[n]].file \in {0, n} \/ overtaken'
      BY DEF HandleOwn
    <3>1. handle \in [Calls -> Nat]
      BY DEF TypeInv, TypeOK
    <3>2. CASE n = exec.call
      <4>1. handle'[n] = Len(runs) + 1 /\ runs'[handle'[n]] = x
        BY <2>1, <2>4, <3>1, <3>2
      <4> QED
        BY <1>1, <2>3, <2>4, <2>5, <3>2, <4>1
    <3>3. CASE n # exec.call
      <4>1. handle'[n] = handle[n] /\ handle[n] \in Nat
        BY <2>1, <3>1, <3>3
      <4> QED
        BY <1>1, <2>3, <2>4, <4>1 DEF ScriptInv, HandleOwn
    <3> QED
      BY <3>2, <3>3
  <2> QED
    BY <2>2, <2>6 DEF ScriptInv, FileOwn
<1> QED
  BY <1>1, <1>2, <1>3, <1>4

LEMMA ScriptFails == TypeInv /\ ScriptInv /\ PostFails => ScriptInv'
<1> SUFFICES ASSUME TypeInv, ScriptInv, PostFails PROVE ScriptInv'
  OBVIOUS
<1> DEFINE x == [call |-> exec.call, file |-> file]
<1>1. exec.call \in Calls /\ exec.pc \in {"write", "exec"} /\ UNCHANGED <<handle, overtaken>>
  BY DEF PostFails, TypeInv, Progress
<1>2. UNCHANGED <<file, runs>> \/ CarryOut(exec.pc, exec.call)
  BY DEF PostFails, guest
<1>3. /\ exec.pc = "exec" => file' = file
      /\ runs' = runs \/ runs' = Append(runs, x)
  BY <1>1, <1>2, CarryOutType
<1>4. HandleOwn'
  <2>1. x \in Runs
    BY <1>1 DEF TypeInv, TypeOK, Runs
  <2> HIDE DEF x
  <2> QED
    BY <1>1, <1>3, <2>1, ScriptRuns DEF ScriptInv
<1>5. exec'.pc # "exec" \/ (exec.pc = "exec" /\ exec'.call = exec.call)
  <2>1. exec' = [exec EXCEPT !.ep = @ + 1] \/ exec' = ExecIdle(exec.call)
    BY DEF PostFails, AllFailed
  <2>2. [exec EXCEPT !.ep = @ + 1].pc = exec.pc /\ [exec EXCEPT !.ep = @ + 1].call = exec.call
    BY DEF TypeInv, TypeOK, Execs
  <2>3. ExecIdle(exec.call).pc = "idle"
    BY DEF ExecIdle
  <2> QED
    BY <1>1, <2>1, <2>2, <2>3
<1> QED
  BY <1>1, <1>3, <1>4, <1>5 DEF ScriptInv, FileOwn

\* A file-write that comes late is either the call's own, or it is noted.
LEMMA ScriptLate == TypeInv /\ ScriptInv /\ CarriedOutLate => ScriptInv'
<1> SUFFICES ASSUME TypeInv, ScriptInv, CarriedOutLate PROVE ScriptInv'
  OBVIOUS
<1>1. PICK r \in pending : /\ CarryOut(r.kind, r.call)
                           /\ overtaken' = (overtaken \/ (r.kind = "write" /\ r.call # exec.call))
  BY DEF CarriedOutLate
<1>2. r.call \in Calls /\ UNCHANGED <<exec, handle>>
  BY DEF CarriedOutLate, TypeInv, TypeOK, Requests
<1> DEFINE x == [call |-> r.call, file |-> file]
<1>3. /\ runs' = runs \/ runs' = Append(runs, x)
      /\ file' = file \/ (r.kind = "write" /\ file' = r.call)
  BY <1>1, <1>2, CarryOutType
<1>4. HandleOwn'
  <2>1. x \in Runs
    BY <1>2 DEF TypeInv, TypeOK, Runs
  <2> HIDE DEF x
  <2> QED
    BY <1>1, <1>2, <1>3, <2>1, ScriptRuns DEF ScriptInv
<1>5. FileOwn'
  BY <1>1, <1>2, <1>3 DEF ScriptInv, FileOwn
<1> QED
  BY <1>4, <1>5 DEF ScriptInv

\* All the other steps start no script and write none.
LEMMA OtherSteps ==
    ASSUME TypeInv,
           \/ Poll \/ Sync \/ New \/ CheckReady \/ CheckReadyEnds \/ ExecScript \/ CallFails
           \/ CommandEnds \/ Move \/ SyncCache \/ OperatorRestart \/ UNCHANGED vars
    PROVE  /\ UNCHANGED <<runs, pending, handle, unanswered, overtaken>> /\ file' \in {file, 0}
           /\ exec' = exec \/ exec'.pc # "exec"
<1>1. CASE Poll \/ Sync
  BY <1>1 DEF Poll, PollReads, PollLooksUp, PollProbes, PollFails, PollPatches, Sync, SyncFetches,
              SyncFetchFails, SyncPatches, guest, history
<1>2. CASE New \/ CheckReady \/ CheckReadyEnds \/ ExecScript \/ CallFails
  <2>1. /\ UNCHANGED <<runs, pending, handle, unanswered, overtaken>> /\ file' = file
    BY <1>2 DEF New, CheckReady, CheckReadyEnds, ExecScript, CallFails, guest, history
  <2>2. exec'.pc # "exec"
    <3>1. /\ ExecIdle(exec.call).pc = "idle"
          /\ \A x : /\ [exec EXCEPT !.pc = "wait", !.node = x].pc = "wait"
                    /\ [exec EXCEPT !.pc = "resolve", !.node = x].pc = "resolve"
                    /\ [exec EXCEPT !.pc = "write", !.node = x, !.ep = 1, !.call = @ + 1].pc = "write"
      BY DEF TypeInv, TypeOK, Execs, ExecIdle
    <3>2. CASE New
      BY <3>2 DEF New
    <3>3. CASE CheckReady
      BY <3>1, <3>3 DEF CheckReady
    <3>4. CASE CheckReadyEnds
      <4>1. exec' = ExecIdle(exec.call) \/ exec' = [exec EXCEPT !.pc = "resolve", !.node = NoNode]
        BY <3>4 DEF CheckReadyEnds
      <4> QED
        BY <3>1, <4>1
    <3>5. CASE ExecScript
      BY <3>1, <3>5 DEF ExecScript
    <3>6. CASE CallFails
      BY <3>1, <3>6 DEF CallFails
    <3> QED
      BY <1>2, <3>2, <3>3, <3>4, <3>5, <3>6
  <2> QED
    BY <2>1, <2>2
<1>3. CASE CommandEnds \/ SyncCache \/ UNCHANGED vars
  BY <1>3 DEF CommandEnds, SyncCache, vars, guest, history
<1>4. CASE Move
  BY <1>4 DEF Move, history
<1>5. CASE OperatorRestart
  BY <1>5 DEF OperatorRestart, guest, history, ExecIdle
<1> QED
  BY <1>1, <1>2, <1>3, <1>4, <1>5

LEMMA ScriptStep == TypeInv /\ ScriptInv /\ [Next]_vars => ScriptInv'
<1> SUFFICES ASSUME TypeInv, ScriptInv, [Next]_vars PROVE ScriptInv'
  OBVIOUS
<1>1. \/ PostAnswered \/ PostFails \/ CarriedOutLate
      \/ Poll \/ Sync \/ New \/ CheckReady \/ CheckReadyEnds \/ ExecScript \/ CallFails
      \/ CommandEnds \/ Move \/ SyncCache \/ OperatorRestart \/ UNCHANGED vars
  BY DEF Next, Exec
<1> QED
  BY <1>1, ScriptAnswered, ScriptFails, ScriptLate, OtherSteps, ScriptKeeps

\* The pid a call returns is of its own run, of its own script, of none, or of one
\* that a file-write given up earlier put there: for any endpoints, moves and faults.
THEOREM OwnScript == Spec => []RunsOwnScript
<1>1. Init => TypeInv /\ ScriptInv
  BY TypeInit, ScriptInit
<1>2. TypeInv /\ ScriptInv /\ [Next]_vars => (TypeInv /\ ScriptInv)'
  BY TypeStep, ScriptStep
<1>3. ScriptInv => RunsOwnScript
  BY DEF ScriptInv, HandleOwn, RunsOwnScript
<1> QED
  BY <1>1, <1>2, <1>3, PTL DEF Spec

----------------------------------------------------------------------------
(* Failing over.  A run beyond the one with the pid is paid for by an exec *)
(* that got no answer; and so is each exec given up that may yet come.     *)

Extra(n) == RunsOf(n) \ {handle[n]}
Issued(n) == {r \in pending : r.kind = "exec" /\ r.call = n}

CountInv ==
    /\ IsFiniteSet(pending)
    /\ \A n \in Calls : Cardinality(Extra(n)) + Cardinality(Issued(n)) <= unanswered[n]

LEMMA Finite ==
    ASSUME TypeInv, CountInv, NEW n \in Calls
    PROVE  /\ IsFiniteSet(Extra(n)) /\ IsFiniteSet(Issued(n))
           /\ Cardinality(Extra(n)) \in Nat /\ Cardinality(Issued(n)) \in Nat
           /\ unanswered[n] \in Nat
<1>1. Len(runs) \in Nat /\ DOMAIN runs = 1..Len(runs)
  BY LenProperties DEF TypeInv, TypeOK
<1>2. Extra(n) \subseteq 1..Len(runs) /\ Issued(n) \subseteq pending
  BY <1>1 DEF Extra, RunsOf, Issued
<1>3. IsFiniteSet(Extra(n)) /\ IsFiniteSet(Issued(n))
  <2>1. IsFiniteSet(1..Len(runs)) /\ IsFiniteSet(pending)
    BY <1>1, FS_Interval DEF CountInv
  <2> QED
    BY <1>2, <2>1, FS_Subset
<1>4. unanswered[n] \in Nat
  BY ProviderAssumption DEF TypeInv, TypeOK
<1> QED
  BY <1>3, <1>4, FS_CardinalityType

LEMMA OneMore ==
    ASSUME NEW S, IsFiniteSet(S), NEW x, NEW T, T \subseteq S \cup {x}
    PROVE  Cardinality(T) \in Nat /\ Cardinality(T) <= Cardinality(S) + 1
<1>1. IsFiniteSet(S \cup {x}) /\ Cardinality(S \cup {x}) <= Cardinality(S) + 1
      /\ Cardinality(S) \in Nat
  BY FS_AddElement, FS_CardinalityType
<1>2. IsFiniteSet(T) /\ Cardinality(T) <= Cardinality(S \cup {x})
  BY <1>1, FS_Subset
<1> QED
  BY <1>1, <1>2, FS_CardinalityType

\* What one more run adds to the runs of a call.
LEMMA RunsGrow ==
    ASSUME TypeInv, NEW n \in Calls, NEW x \in Runs, runs' = Append(runs, x)
    PROVE  /\ RunsOf(n)' \subseteq RunsOf(n) \cup {Len(runs')}
           /\ x.call # n => RunsOf(n)' = RunsOf(n)
           /\ handle[n] = 0 => Extra(n) = RunsOf(n)
<1>1. runs \in Seq(Runs) /\ Len(runs) \in Nat /\ DOMAIN runs = 1..Len(runs)
  BY LenProperties DEF TypeInv, TypeOK
<1>2. /\ Len(runs') = Len(runs) + 1 /\ DOMAIN runs' = 1..(Len(runs) + 1)
      /\ runs'[Len(runs) + 1] = x
      /\ \A i \in 1..Len(runs) : runs'[i] = runs[i]
  BY <1>1, AppendProperties, LenProperties
<1>3. 0 \notin RunsOf(n)
  BY <1>1 DEF RunsOf
<1>4. handle[n] = 0 => Extra(n) = RunsOf(n)
  BY <1>3 DEF Extra
<1>5. RunsOf(n)' = {i \in DOMAIN runs' : runs'[i].call = n}
  BY DEF RunsOf
<1>6. \A i \in 1..(Len(runs) + 1) : i \in 1..Len(runs) \/ i = Len(runs) + 1
  BY <1>1
<1> QED
  BY <1>1, <1>2, <1>4, <1>5, <1>6 DEF RunsOf

LEMMA CountInit == Init => CountInv
<1> SUFFICES ASSUME Init PROVE CountInv
  OBVIOUS
<1>1. pending = {} /\ runs = <<>> /\ \A n \in Calls : unanswered[n] = 0
  BY DEF Init
<1>2. \A n \in Calls : Extra(n) = {} /\ Issued(n) = {}
  BY <1>1 DEF Extra, RunsOf, Issued
<1>3. IsFiniteSet(pending) /\ Cardinality({}) = 0
  BY <1>1, FS_EmptySet
<1>4. ASSUME NEW n \in Calls
      PROVE  Cardinality(Extra(n)) + Cardinality(Issued(n)) <= unanswered[n]
  <2>1. Extra(n) = {} /\ Issued(n) = {} /\ unanswered[n] = 0
    BY <1>1, <1>2
  <2>2. Cardinality(Extra(n)) = 0 /\ Cardinality(Issued(n)) = 0
    BY <1>3, <2>1
  <2> QED
    BY <2>1, <2>2
<1> QED
  BY <1>3, <1>4 DEF CountInv

LEMMA CountKeeps ==
    ASSUME CountInv, UNCHANGED <<runs, pending, handle, unanswered>> PROVE CountInv'
BY DEF CountInv, Extra, RunsOf, Issued

\* The run whose pid is returned is not an extra one.
LEMMA CountAnswered == TypeInv /\ CountInv /\ PostAnswered => CountInv'
<1> SUFFICES ASSUME TypeInv, CountInv, PostAnswered PROVE CountInv'
  OBVIOUS
<1>1. /\ exec.call \in Calls /\ exec.pc \in {"write", "exec"}
      /\ UNCHANGED <<pending, unanswered>>
  BY DEF PostAnswered, TypeInv, Progress
<1>2. CASE ~Reachable(exec.node)
  BY <1>1, <1>2, CountKeeps DEF PostAnswered, guest
<1>3. CASE Reachable(exec.node) /\ exec.pc = "write"
  <2>1. CarryOut(exec.pc, exec.call) /\ handle' = handle
    BY <1>3 DEF PostAnswered
  <2>2. runs' = runs
    BY <1>1, <1>3, <2>1, CarryOutType
  <2> QED
    BY <1>1, <2>1, <2>2, CountKeeps
<1>4. CASE Reachable(exec.node) /\ exec.pc = "exec"
  <2> DEFINE x == [call |-> exec.call, file |-> file]
  <2>1. CarryOut(exec.pc, exec.call) /\ handle' = [handle EXCEPT ![exec.call] = Len(runs')]
    BY <1>4 DEF PostAnswered
  <2>2. runs' = Append(runs, x)
    BY <1>1, <1>4, <2>1, CarryOutType
  <2>3. x \in Runs /\ x.call = exec.call
    BY <1>1 DEF TypeInv, TypeOK, Runs
  <2> HIDE DEF x
  <2>4. handle \in [Calls -> Nat] /\ handle[exec.call] = 0
    BY <1>1, <1>4 DEF TypeInv, TypeOK, Fresh
  <2>5. ASSUME NEW n \in Calls PROVE Extra(n)' \subseteq Extra(n)
    <3>1. CASE n = exec.call
      BY <2>1, <2>2, <2>3, <2>4, <3>1, RunsGrow DEF Extra
    <3>2. CASE n # exec.call
      BY <2>1, <2>2, <2>3, <2>4, <3>2, RunsGrow DEF Extra
    <3> QED
      BY <3>1, <3>2
  <2>6. ASSUME NEW n \in Calls
        PROVE  (Cardinality(Extra(n)) + Cardinality(Issued(n)) <= unanswered[n])'
    <3>1. Cardinality(Extra(n)') \in Nat /\ Cardinality(Extra(n)') <= Cardinality(Extra(n))
      BY <2>5, Finite, FS_Subset, FS_CardinalityType
    <3>2. Issued(n)' = Issued(n) /\ unanswered'[n] = unanswered[n]
      BY <1>1 DEF Issued
    <3> QED
      BY <3>1, <3>2, Finite DEF CountInv
  <2> QED
    BY <1>1, <2>6 DEF CountInv
<1> QED
  BY <1>1, <1>2, <1>3, <1>4

\* The one step that leaves a run without its pid raises the count.
LEMMA CountFails == TypeInv /\ CountInv /\ PostFails => CountInv'
<1> SUFFICES ASSUME TypeInv, CountInv, PostFails PROVE CountInv'
  OBVIOUS
<1>1. /\ exec.call \in Calls /\ exec.pc \in {"write", "exec"} /\ UNCHANGED handle
      /\ unanswered \in [Calls -> 0..Endpoints]
  BY DEF PostFails, TypeInv, TypeOK, Progress
<1> DEFINE x == [call |-> exec.call, file |-> file]
<1>2. \/ UNCHANGED <<runs, pending, unanswered>>
      \/ unanswered' = Unanswered /\ CarryOut(exec.pc, exec.call) /\ pending' = pending
      \/ unanswered' = Unanswered /\ runs' = runs /\ pending' = pending \cup {Request}
  BY DEF PostFails, guest
<1>3. CASE UNCHANGED <<runs, pending, unanswered>>
  BY <1>1, <1>3, CountKeeps
<1>4. Request.kind = exec.pc /\ Request.call = exec.call
  BY DEF Request
<1>5. CASE unanswered' = Unanswered /\ CarryOut(exec.pc, exec.call) /\ pending' = pending
  <2>1. CASE exec.pc = "write"
    <3>1. runs' = runs /\ unanswered' = unanswered
      BY <1>1, <1>5, <2>1, CarryOutType DEF Unanswered
    <3> QED
      BY <1>1, <1>5, <3>1, CountKeeps
  <2>2. CASE exec.pc = "exec"
    <3>1. runs' = Append(runs, x) /\ unanswered' = [unanswered EXCEPT ![exec.call] = @ + 1]
      BY <1>1, <1>5, <2>2, CarryOutType DEF Unanswered
    <3>2. x \in Runs /\ x.call = exec.call
      BY <1>1 DEF TypeInv, TypeOK, Runs
    <3> HIDE DEF x
    <3>3. ASSUME NEW n \in Calls
          PROVE  (Cardinality(Extra(n)) + Cardinality(Issued(n)) <= unanswered[n])'
      <4>1. Issued(n)' = Issued(n)
        BY <1>5 DEF Issued
      <4>2. CASE n = exec.call
        <5>1. Extra(n)' \subseteq Extra(n) \cup {Len(runs')}
          BY <1>1, <3>1, <3>2, RunsGrow DEF Extra
        <5>2. /\ Cardinality(Extra(n)') \in Nat
              /\ Cardinality(Extra(n)') <= Cardinality(Extra(n)) + 1
          BY <5>1, Finite, OneMore
        <5>3. unanswered'[n] = unanswered[n] + 1
          BY <1>1, <3>1, <4>2
        <5> QED
          BY <4>1, <5>2, <5>3, Finite DEF CountInv
      <4>3. CASE n # exec.call
        <5>1. Extra(n)' = Extra(n)
          BY <1>1, <3>1, <3>2, <4>3, RunsGrow DEF Extra
        <5>2. unanswered'[n] = unanswered[n]
          BY <1>1, <3>1, <4>3
        <5> QED
          BY <4>1, <5>1, <5>2 DEF CountInv
      <4> QED
        BY <4>2, <4>3
    <3> QED
      BY <1>5, <3>3 DEF CountInv
  <2> QED
    BY <1>1, <2>1, <2>2
<1>6. CASE unanswered' = Unanswered /\ runs' = runs /\ pending' = pending \cup {Request}
  <2>1. IsFiniteSet(pending')
    BY <1>6, FS_AddElement DEF CountInv
  <2>2. ASSUME NEW n \in Calls
        PROVE  (Cardinality(Extra(n)) + Cardinality(Issued(n)) <= unanswered[n])'
    <3>1. Extra(n)' = Extra(n)
      BY <1>1, <1>6 DEF Extra, RunsOf
    <3>2. CASE n = exec.call /\ exec.pc = "exec"
      <4>1. Issued(n)' \subseteq Issued(n) \cup {Request}
        BY <1>6 DEF Issued
      <4>2. /\ Cardinality(Issued(n)') \in Nat
            /\ Cardinality(Issued(n)') <= Cardinality(Issued(n)) + 1
        BY <4>1, Finite, OneMore
      <4>3. unanswered'[n] = unanswered[n] + 1
        BY <1>1, <1>6, <3>2 DEF Unanswered
      <4> QED
        BY <3>1, <4>2, <4>3, Finite DEF CountInv
    <3>3. CASE ~(n = exec.call /\ exec.pc = "exec")
      <4>1. Issued(n)' = Issued(n)
        BY <1>4, <1>6, <3>3 DEF Issued
      <4>2. unanswered'[n] = unanswered[n]
        BY <1>1, <1>6, <3>3 DEF Unanswered
      <4> QED
        BY <3>1, <4>1, <4>2 DEF CountInv
    <3> QED
      BY <3>2, <3>3
  <2> QED
    BY <2>1, <2>2 DEF CountInv
<1> QED
  BY <1>2, <1>3, <1>5, <1>6

\* An exec that comes late was counted when it was given up.
LEMMA CountLate == TypeInv /\ CountInv /\ CarriedOutLate => CountInv'
<1> SUFFICES ASSUME TypeInv, CountInv, CarriedOutLate PROVE CountInv'
  OBVIOUS
<1>1. PICK r \in pending : CarryOut(r.kind, r.call) /\ pending' = pending \ {r}
  BY DEF CarriedOutLate
<1>2. /\ r.call \in Calls /\ r.kind \in {"write", "exec"} /\ UNCHANGED <<handle, unanswered>>
  BY DEF CarriedOutLate, TypeInv, TypeOK, Requests
<1> DEFINE x == [call |-> r.call, file |-> file]
<1>3. IsFiniteSet(pending')
  BY <1>1, FS_RemoveElement DEF CountInv
<1>4. ASSUME NEW n \in Calls
      PROVE  (Cardinality(Extra(n)) + Cardinality(Issued(n)) <= unanswered[n])'
  <2>1. CASE r.kind = "write"
    <3>1. runs' = runs
      BY <1>1, <1>2, <2>1, CarryOutType
    <3>2. Extra(n)' = Extra(n) /\ Issued(n)' = Issued(n)
      BY <1>1, <1>2, <2>1, <3>1 DEF Extra, RunsOf, Issued
    <3> QED
      BY <1>2, <3>2 DEF CountInv
  <2>2. CASE r.kind = "exec"
    <3>1. runs' = Append(runs, x)
      BY <1>1, <1>2, <2>2, CarryOutType
    <3>2. x \in Runs /\ x.call = r.call
      BY <1>2 DEF TypeInv, TypeOK, Runs
    <3> HIDE DEF x
    <3>3. CASE n = r.call
      <4>1. Extra(n)' \subseteq Extra(n) \cup {Len(runs')}
        BY <1>2, <3>1, <3>2, RunsGrow DEF Extra
      <4>2. /\ Cardinality(Extra(n)') \in Nat
            /\ Cardinality(Extra(n)') <= Cardinality(Extra(n)) + 1
        BY <4>1, Finite, OneMore
      <4>3. Issued(n)' = Issued(n) \ {r} /\ r \in Issued(n)
        BY <1>1, <2>2, <3>3 DEF Issued
      <4>4. Cardinality(Issued(n)') = Cardinality(Issued(n)) - 1
        BY <4>3, Finite, FS_RemoveElement
      <4> QED
        BY <1>2, <4>2, <4>4, Finite DEF CountInv
    <3>4. CASE n # r.call
      <4>1. Extra(n)' = Extra(n) /\ Issued(n)' = Issued(n)
        BY <1>1, <1>2, <3>1, <3>2, <3>4, RunsGrow DEF Extra, Issued
      <4> QED
        BY <1>2, <4>1 DEF CountInv
    <3> QED
      BY <3>3, <3>4
  <2> QED
    BY <1>2, <2>1, <2>2
<1> QED
  BY <1>3, <1>4 DEF CountInv

LEMMA CountStep == TypeInv /\ CountInv /\ [Next]_vars => CountInv'
<1> SUFFICES ASSUME TypeInv, CountInv, [Next]_vars PROVE CountInv'
  OBVIOUS
<1>1. \/ PostAnswered \/ PostFails \/ CarriedOutLate
      \/ Poll \/ Sync \/ New \/ CheckReady \/ CheckReadyEnds \/ ExecScript \/ CallFails
      \/ CommandEnds \/ Move \/ SyncCache \/ OperatorRestart \/ UNCHANGED vars
  BY DEF Next, Exec
<1> QED
  BY <1>1, CountAnswered, CountFails, CountLate, OtherSteps, CountKeeps

\* A call's script runs once, and once more for each of its exec requests that got
\* no answer: for any number of endpoints, and however late requests are carried out.
THEOREM FailoverRuns == Spec => []ExtraRunsUnanswered
<1>1. Init => TypeInv /\ CountInv
  BY TypeInit, CountInit
<1>2. TypeInv /\ CountInv /\ [Next]_vars => (TypeInv /\ CountInv)'
  BY TypeStep, CountStep
<1>3. TypeInv /\ CountInv => ExtraRunsUnanswered
  <2> SUFFICES ASSUME TypeInv, CountInv, NEW n \in Calls
               PROVE  Cardinality(RunsOf(n) \ {handle[n]}) <= unanswered[n]
    BY DEF ExtraRunsUnanswered
  <2>1. Cardinality(Extra(n)) <= unanswered[n]
    BY Finite DEF CountInv
  <2> QED
    BY <2>1 DEF Extra
<1> QED
  BY <1>1, <1>2, <1>3, PTL DEF Spec

=============================================================================
