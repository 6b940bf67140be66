------------------------ MODULE DaemonProvider_proofs ------------------------
(***************************************************************************)
(* Proofs about DaemonProvider: its type invariant; that within the life   *)
(* of one operator process a config records the result of its own, last    *)
(* call; and that the registry is bounded by the configs and by what was   *)
(* abandoned.  For any configs, calls, restarts and faults.                *)
(***************************************************************************)
EXTENDS DaemonProvider, FiniteSetTheorems, SequenceTheorems, TLAPS

----------------------------------------------------------------------------
(* Types *)

Phases == {"Pending", "Applying", "Applied", "Failed"}
Patches == [cfg : Configs, phase : Phases, pid : Nat, call : Nat]

TypeInv == TypeOK /\ work \in Patches \cup {Nothing}

\* A patch under way is about a config; there is none under way when idle.
LEMMA WorkType ==
    ASSUME TypeInv, ~Idle
    PROVE  work \in Patches /\ work.cfg \in Configs /\ work.phase \in Phases /\ work.pid \in Nat
BY DEF TypeInv, Idle, Patches

LEMMA PatchType ==
    ASSUME NEW c \in Configs, NEW phase \in Phases, NEW pid \in Nat, NEW call \in Nat
    PROVE  /\ Patch(c, phase, pid, call) \in Patches
           /\ Patch(c, phase, pid, call).cfg = c /\ Patch(c, phase, pid, call).pid = pid
           /\ Patch(c, phase, pid, call).call = call
           /\ Patch(c, phase, pid, call) # Nothing
BY DEF Patch, Patches, Phases, Nothing

LEMMA Registered ==
    ASSUME TypeOK
    PROVE  /\ Len(calls) \in Nat /\ DOMAIN calls = 1..Len(calls)
           /\ pidSeq \in Nat /\ 0 \notin DOMAIN execMap
           /\ \A h \in DOMAIN execMap : h \in Nat /\ h <= pidSeq
           /\ \A i \in DOMAIN calls : calls[i] \in Calls
<1>1. DOMAIN execMap \subseteq 1..pidSeq /\ pidSeq \in Nat /\ calls \in Seq(Calls)
  BY DEF TypeOK
<1> QED
  BY <1>1, LenProperties

LEMMA TypeInit == Init => TypeInv
<1> SUFFICES ASSUME Init PROVE TypeInv
  OBVIOUS
<1>1. execMap = <<>> /\ DOMAIN execMap = {} /\ calls = <<>> /\ calls \in Seq(Calls)
  BY DEF Init
<1>2. status \in [Configs -> Statuses]
  BY DEF Init, Statuses
<1>3. pidSeq = 0 /\ work = Nothing /\ abandoned = 0 /\ restarts = 0 /\ faults = 0
  BY DEF Init
<1> QED
  BY <1>1, <1>2, <1>3 DEF TypeInv, TypeOK, Idle

\* The steps that leave registry and calls alone.
LEMMA TypeQuiet ==
    ASSUME TypeInv, UNCHANGED <<execMap, pidSeq, calls>>, status' \in [Configs -> Statuses],
           work' \in Patches \cup {Nothing}, {abandoned', restarts', faults'} \subseteq Nat
    PROVE  TypeInv'
<1>1. work'.cfg \in Configs \/ work' = Nothing
  BY DEF Patches
<1> QED
  BY <1>1 DEF TypeInv, TypeOK, Idle

LEMMA FaultType == ASSUME TypeInv, Fault PROVE faults' \in Nat
BY DEF TypeInv, TypeOK, Fault

LEMMA TypeExec ==
    ASSUME TypeInv, NEW c \in Configs, ExecScript(c) PROVE TypeInv'
<1>1. Len(calls) \in Nat /\ DOMAIN calls = 1..Len(calls) /\ pidSeq \in Nat
      /\ DOMAIN execMap \subseteq 1..pidSeq
  BY Registered DEF TypeInv, TypeOK
<1> DEFINE x == [cfg |-> c, st |-> "running"]
<1>2. /\ calls' = Append(calls, x) /\ pidSeq' = pidSeq + 1
      /\ execMap' = [h \in DOMAIN execMap \cup {pidSeq + 1} |->
                         IF h = pidSeq + 1 THEN Len(calls) + 1 ELSE execMap[h]]
      /\ work' = Patch(c, "Applying", pidSeq + 1, 0)
      /\ UNCHANGED <<status, abandoned, restarts, faults>>
  BY DEF ExecScript, NextHandle
<1>3. calls' \in Seq(Calls) /\ DOMAIN calls' = 1..(Len(calls) + 1)
  <2>1. x \in Calls /\ calls \in Seq(Calls)
    BY DEF Calls, TypeInv, TypeOK
  <2> HIDE DEF x
  <2> QED
    BY <1>1, <1>2, <2>1, AppendProperties, LenProperties
<1>4. /\ DOMAIN execMap' = DOMAIN execMap \cup {pidSeq + 1}
      /\ execMap'[pidSeq + 1] = Len(calls) + 1
      /\ \A h \in DOMAIN execMap : h # pidSeq + 1 => execMap'[h] = execMap[h]
  BY <1>2
<1>5. \A h \in DOMAIN execMap' : execMap'[h] \in DOMAIN calls'
  <2>1. \A h \in DOMAIN execMap : h # pidSeq + 1 /\ execMap[h] \in 1..Len(calls)
    BY <1>1 DEF TypeInv, TypeOK
  <2> QED
    BY <1>1, <1>3, <1>4, <2>1
<1>6. work' \in Patches
  BY <1>1, <1>2, PatchType DEF Phases
<1> QED
  BY <1>1, <1>2, <1>3, <1>4, <1>5, <1>6 DEF TypeInv, TypeOK, Patches

\* Calls that keep their number and their configs.
LEMMA TypeCalls ==
    ASSUME TypeInv, NEW S, calls' = [i \in DOMAIN calls |-> S[i]], \A i \in DOMAIN calls : S[i] \in Calls,
           UNCHANGED <<execMap, pidSeq, status, work, abandoned, restarts>>, faults' \in Nat
    PROVE  TypeInv'
<1>1. Len(calls) \in Nat /\ DOMAIN calls = 1..Len(calls)
  BY Registered DEF TypeInv
<1>2. DOMAIN calls' = 1..Len(calls) /\ \A i \in 1..Len(calls) : calls'[i] \in Calls
  BY <1>1
<1>3. calls' \in [1..Len(calls) -> Calls]
  BY <1>1
<1>4. calls' \in Seq(Calls)
  BY <1>1, <1>3, SeqDef
<1> QED
  BY <1>1, <1>2, <1>4 DEF TypeInv, TypeOK, Idle

\* A call that ends keeps its config, and no other call changes.
LEMMA CallEndsEffect ==
    ASSUME TypeInv, NEW i \in DOMAIN calls, CallEnds(i)
    PROVE  \E end \in Ends :
               /\ calls' = [j \in DOMAIN calls |->
                               IF j = i THEN [cfg |-> calls[j].cfg, st |-> end] ELSE calls[j]]
               /\ \A j \in DOMAIN calls :
                      IF j = i THEN [cfg |-> calls[j].cfg, st |-> end] \in Calls ELSE calls[j] \in Calls
<1>1. \A j \in DOMAIN calls : calls[j] \in Calls /\ calls[j].cfg \in Configs
  BY Registered DEF TypeInv, Calls
<1>2. PICK end \in Ends : calls' = [calls EXCEPT ![i].st = end]
  BY DEF CallEnds, Ends
<1>3. [calls[i] EXCEPT !.st = end] = [cfg |-> calls[i].cfg, st |-> end]
  BY <1>1 DEF Calls
<1>4. calls' = [j \in DOMAIN calls |-> IF j = i THEN [calls[i] EXCEPT !.st = end] ELSE calls[j]]
  BY <1>2
<1>5. [cfg |-> calls[i].cfg, st |-> end] \in Calls
  BY <1>1 DEF Calls
<1> QED
  BY <1>1, <1>3, <1>4, <1>5

LEMMA TypeCallEnds ==
    ASSUME TypeInv, NEW i \in DOMAIN calls, CallEnds(i) PROVE TypeInv'
<1>1. PICK end \in Ends :
          /\ calls' = [j \in DOMAIN calls |->
                          IF j = i THEN [cfg |-> calls[j].cfg, st |-> end] ELSE calls[j]]
          /\ \A j \in DOMAIN calls :
                 IF j = i THEN [cfg |-> calls[j].cfg, st |-> end] \in Calls ELSE calls[j] \in Calls
  BY CallEndsEffect
<1>2. UNCHANGED <<execMap, pidSeq, status, work, abandoned, restarts>> /\ faults' \in Nat
  BY FaultType DEF CallEnds, TypeInv, TypeOK
<1> DEFINE S == [j \in DOMAIN calls |->
                    IF j = i THEN [cfg |-> calls[j].cfg, st |-> end] ELSE calls[j]]
<1>3. calls' = [j \in DOMAIN calls |-> S[j]] /\ \A j \in DOMAIN calls : S[j] \in Calls
  BY <1>1
<1> HIDE DEF S
<1> QED
  BY <1>2, <1>3, TypeCalls

LEMMA PollDoneEffect ==
    ASSUME TypeInv, NEW c \in Configs, PollDone(c)
    PROVE  LET h == status[c].pid IN
           /\ h \in DOMAIN execMap /\ execMap[h] \in DOMAIN calls /\ execMap[h] \in Nat
           /\ execMap[h] > 0
           /\ DOMAIN execMap' = DOMAIN execMap \ {h}
           /\ \A g \in DOMAIN execMap' : execMap'[g] = execMap[g]
           /\ \/ work' = Patch(c, "Applied", 0, execMap[h])
              \/ \E i \in {0, execMap[h]} : work' = Patch(c, "Failed", 0, i)
              \/ work' = Nothing
           /\ UNCHANGED <<pidSeq, calls, status, abandoned, restarts, faults>>
<1> DEFINE h == status[c].pid
<1>1. h \in DOMAIN execMap /\ execMap[h] \in DOMAIN calls
  BY DEF PollDone, TypeInv, TypeOK
<1>2. execMap[h] \in Nat /\ execMap[h] > 0
  BY <1>1, Registered DEF TypeInv
<1>3. execMap' = [g \in DOMAIN execMap \ {h} |-> execMap[g]]
  BY DEF PollDone, Take
<1>4. \/ work' = Patch(c, "Applied", 0, execMap[h])
      \/ \E i \in {0, execMap[h]} : work' = Patch(c, "Failed", 0, i)
      \/ work' = Nothing
  BY DEF PollDone
<1>5. UNCHANGED <<pidSeq, calls, status, abandoned, restarts, faults>>
  BY DEF PollDone
<1> QED
  BY <1>1, <1>2, <1>3, <1>4, <1>5

LEMMA TypePollDone ==
    ASSUME TypeInv, NEW c \in Configs, PollDone(c) PROVE TypeInv'
<1> DEFINE h == status[c].pid
<1>1. /\ execMap[h] \in Nat /\ DOMAIN execMap' = DOMAIN execMap \ {h}
      /\ \A g \in DOMAIN execMap' : execMap'[g] = execMap[g]
      /\ \/ work' = Patch(c, "Applied", 0, execMap[h])
         \/ \E i \in {0, execMap[h]} : work' = Patch(c, "Failed", 0, i)
         \/ work' = Nothing
      /\ UNCHANGED <<pidSeq, calls, status, abandoned, restarts, faults>>
  BY PollDoneEffect
<1>2. work' \in Patches \cup {Nothing}
  <2>1. ASSUME NEW i \in {0, execMap[h]}, work' = Patch(c, "Failed", 0, i)
        PROVE  work' \in Patches
    <3>1. i \in Nat
      BY <1>1, <2>1
    <3>2. QED
      BY <2>1, <3>1, PatchType DEF Phases
  <2>2. QED
    BY <1>1, <2>1, PatchType DEF Phases
<1>3. work'.cfg \in Configs \/ work' = Nothing
  BY <1>2 DEF Patches
<1> QED
  BY <1>1, <1>2, <1>3 DEF TypeInv, TypeOK, Idle

LEMMA TypePollLost ==
    ASSUME TypeInv, NEW c \in Configs, PollLost(c) PROVE TypeInv'
<1>1. work' \in Patches \cup {Nothing}
  BY PatchType DEF PollLost, Lost, Phases
<1>2. /\ UNCHANGED <<execMap, pidSeq, calls>> /\ status' \in [Configs -> Statuses]
      /\ {abandoned', restarts', faults'} \subseteq Nat
  BY DEF PollLost, TypeInv, TypeOK
<1> QED
  BY <1>1, <1>2, TypeQuiet

LEMMA TypePollTimedOut ==
    ASSUME TypeInv, NEW c \in Configs, PollTimedOut(c) PROVE TypeInv'
<1>1. work' \in Patches \cup {Nothing}
  BY PatchType DEF PollTimedOut, Phases
<1>2. abandoned \in Nat /\ restarts \in Nat /\ faults' \in Nat
  BY FaultType DEF PollTimedOut, TypeInv, TypeOK
<1>3. /\ UNCHANGED <<execMap, pidSeq, calls>> /\ status' \in [Configs -> Statuses]
      /\ {abandoned', restarts', faults'} \subseteq Nat
  BY <1>2 DEF PollTimedOut, TypeInv, TypeOK
<1> QED
  BY <1>1, <1>3, TypeQuiet

LEMMA TypePatchStatus == ASSUME TypeInv, PatchStatus PROVE TypeInv'
<1>1. work.cfg \in Configs /\ work.phase \in Phases /\ work.pid \in Nat
  BY WorkType DEF PatchStatus
<1>2. status' \in [Configs -> Statuses]
  BY <1>1 DEF PatchStatus, TypeInv, TypeOK, Statuses, Phases
<1>3. /\ UNCHANGED <<execMap, pidSeq, calls>> /\ work' \in Patches \cup {Nothing}
      /\ {abandoned', restarts', faults'} \subseteq Nat
  BY DEF PatchStatus, TypeInv, TypeOK
<1> QED
  BY <1>2, <1>3, TypeQuiet

LEMMA TypePatchStatusFails == ASSUME TypeInv, PatchStatusFails PROVE TypeInv'
<1>1. abandoned \in Nat /\ restarts \in Nat /\ faults' \in Nat
  BY FaultType DEF PatchStatusFails, TypeInv, TypeOK
<1>2. /\ UNCHANGED <<execMap, pidSeq, calls>> /\ work' \in Patches \cup {Nothing}
      /\ status' \in [Configs -> Statuses] /\ {abandoned', restarts', faults'} \subseteq Nat
  BY <1>1 DEF PatchStatusFails, TypeInv, TypeOK
<1> QED
  BY <1>2, TypeQuiet

LEMMA TypeReapply ==
    ASSUME TypeInv, NEW c \in Configs, Reapply(c) PROVE TypeInv'
<1>1. status' \in [Configs -> Statuses]
  BY DEF Reapply, TypeInv, TypeOK, Statuses
<1>2. /\ UNCHANGED <<execMap, pidSeq, calls>> /\ work' \in Patches \cup {Nothing}
      /\ {abandoned', restarts', faults'} \subseteq Nat
  BY DEF Reapply, TypeInv, TypeOK
<1> QED
  BY <1>1, <1>2, TypeQuiet

LEMMA TypeRecreate ==
    ASSUME TypeInv, NEW c \in Configs, Recreate(c) PROVE TypeInv'
<1>1. status' \in [Configs -> Statuses]
  BY DEF Recreate, TypeInv, TypeOK, Statuses
<1>2. abandoned \in Nat /\ restarts \in Nat /\ faults' \in Nat
  BY FaultType DEF Recreate, TypeInv, TypeOK
<1>3. /\ UNCHANGED <<execMap, pidSeq, calls>> /\ work' \in Patches \cup {Nothing}
      /\ {abandoned', restarts', faults'} \subseteq Nat
  BY <1>2 DEF Recreate, TypeInv, TypeOK
<1> QED
  BY <1>1, <1>3, TypeQuiet

LEMMA TypeRestart == ASSUME TypeInv, OperatorRestart PROVE TypeInv'
<1>1. Len(calls) \in Nat /\ DOMAIN calls = 1..Len(calls)
      /\ \A i \in DOMAIN calls : calls[i] \in Calls
  BY Registered DEF TypeInv
<1> DEFINE S == [i \in DOMAIN calls |-> [calls[i] EXCEPT !.st = "gone"]]
<1>2. \A i \in DOMAIN calls : S[i] \in Calls
  BY <1>1 DEF Calls
<1>3. calls' = S
  BY DEF OperatorRestart
<1>4. calls' \in Seq(Calls)
  <2>1. calls' \in [1..Len(calls) -> Calls]
    BY <1>1, <1>2, <1>3
  <2> QED
    BY <1>1, <2>1, SeqDef
<1>5. /\ execMap' = <<>> /\ pidSeq' = 0 /\ work' = Nothing /\ abandoned' = 0
      /\ restarts' = restarts + 1 /\ UNCHANGED <<status, faults>>
  BY DEF OperatorRestart
<1>6. DOMAIN execMap' = {}
  BY <1>5
<1> HIDE DEF S
<1> QED
  BY <1>4, <1>5, <1>6 DEF TypeInv, TypeOK, Idle

LEMMA TypeStep == TypeInv /\ [Next]_vars => TypeInv'
<1> SUFFICES ASSUME TypeInv, [Next]_vars PROVE TypeInv'
  OBVIOUS
<1>1. CASE UNCHANGED vars
  BY <1>1, TypeQuiet DEF vars, TypeInv, TypeOK
<1>2. ASSUME NEW c \in Configs, ExecScript(c) \/ PollLost(c) \/ PollDone(c) PROVE TypeInv'
  BY <1>2, TypeExec, TypePollLost, TypePollDone
<1>3. CASE PatchStatus
  BY <1>3, TypePatchStatus
<1>4. CASE Return
  BY <1>4, TypeCallEnds DEF Return
<1>5. ASSUME NEW c \in Configs, PollTimedOut(c) \/ Reapply(c) \/ Recreate(c) PROVE TypeInv'
  BY <1>5, TypePollTimedOut, TypeReapply, TypeRecreate
<1>6. CASE PatchStatusFails
  BY <1>6, TypePatchStatusFails
<1>7. CASE OperatorRestart
  BY <1>7, TypeRestart
<1> QED
  BY <1>1, <1>2, <1>3, <1>4, <1>5, <1>6, <1>7 DEF Next, Reconcile

\* The registry, its counter, the calls and the statuses keep their types
\* whatever is reported, lost, abandoned or restarted.
THEOREM TypeCorrect == Spec => []TypeOK
<1>1. TypeInv => TypeOK
  BY DEF TypeInv
<1> QED
  BY <1>1, TypeInit, TypeStep, PTL DEF Spec

----------------------------------------------------------------------------
(* Within one process a result is the config's own *)

\* The call behind handle h, if any, is the last one of config c.
Own(c, h) ==
    h \in DOMAIN execMap =>
        /\ calls[execMap[h]].cfg = c
        /\ \A j \in DOMAIN calls : j > execMap[h] => calls[j].cfg # c

OwnStatus == \A c \in Configs : status[c].pid <= pidSeq /\ Own(c, status[c].pid)
OwnWork == ~Idle => /\ work.pid <= pidSeq /\ Own(work.cfg, work.pid)
                    /\ work.call > 0 => work.call \in DOMAIN calls
OwnInv == restarts = 0 => OwnStatus /\ OwnWork /\ ResultIsOwn

\* The steps that keep the calls and give out no handle: a config's pid stays,
\* becomes 0 or becomes that of the patch, and the registry at most shrinks.
LEMMA OwnQuiet ==
    ASSUME TypeInv, OwnInv, restarts' = restarts, pidSeq' = pidSeq, calls' = calls,
           DOMAIN execMap' \subseteq DOMAIN execMap,
           \A g \in DOMAIN execMap' : execMap'[g] = execMap[g],
           \A c \in Configs : \/ status'[c].pid \in {0, status[c].pid}
                              \/ ~Idle /\ c = work.cfg /\ status'[c].pid = work.pid,
           \/ work' \in {work, Nothing}
           \/ \E c \in Configs : work'.cfg = c /\ work'.pid = 0 /\ work'.call = 0
    PROVE  OwnInv'
<1> SUFFICES ASSUME restarts = 0 PROVE OwnStatus' /\ OwnWork' /\ ResultIsOwn'
  BY DEF OwnInv
<1>1. OwnStatus /\ OwnWork /\ ResultIsOwn
  BY DEF OwnInv
<1>2. pidSeq \in Nat /\ 0 \notin DOMAIN execMap
  BY Registered DEF TypeInv
<1>3. ASSUME NEW c, NEW h, Own(c, h) PROVE Own(c, h)'
  BY <1>3 DEF Own
<1>4. OwnStatus'
  <2>1. \A c \in Configs : status'[c].pid <= pidSeq /\ Own(c, status'[c].pid)
    BY <1>1, <1>2 DEF OwnStatus, OwnWork, Own
  <2> QED
    BY <1>2, <2>1 DEF OwnStatus, Own
<1>5. ASSUME work' = work PROVE OwnWork' /\ ResultIsOwn'
  <2>1. Own(work.cfg, work.pid) => Own(work.cfg, work.pid)'
    BY <1>5 DEF Own
  <2> QED
    BY <1>1, <1>5, <2>1 DEF OwnWork, ResultIsOwn, Idle
<1>6. ASSUME work' = Nothing PROVE OwnWork' /\ ResultIsOwn'
  BY <1>6 DEF OwnWork, ResultIsOwn, Idle, Nothing
<1>7. ASSUME NEW c \in Configs, work'.cfg = c /\ work'.pid = 0 /\ work'.call = 0
      PROVE  OwnWork' /\ ResultIsOwn'
  <2>1. Own(work.cfg, work.pid)'
    BY <1>2, <1>7 DEF Own
  <2> QED
    BY <1>2, <1>7, <2>1 DEF OwnWork, ResultIsOwn
<1> QED
  BY <1>4, <1>5, <1>6, <1>7

LEMMA OwnExec ==
    ASSUME TypeInv, OwnInv, NEW c \in Configs, ExecScript(c) PROVE OwnInv'
<1> SUFFICES ASSUME restarts = 0 PROVE OwnStatus' /\ OwnWork' /\ ResultIsOwn'
  BY DEF OwnInv, ExecScript
<1>1. OwnStatus
  BY DEF OwnInv
<1>2. /\ Len(calls) \in Nat /\ DOMAIN calls = 1..Len(calls) /\ pidSeq \in Nat
      /\ 0 \notin DOMAIN execMap /\ \A h \in DOMAIN execMap : h \in Nat /\ h <= pidSeq
      /\ \A h \in DOMAIN execMap : execMap[h] \in DOMAIN calls
      /\ \A d \in Configs : status[d].pid \in Nat
  BY Registered DEF TypeInv, TypeOK, Statuses
<1> DEFINE x == [cfg |-> c, st |-> "running"]
<1>3. /\ calls' = Append(calls, x) /\ pidSeq' = pidSeq + 1
      /\ execMap' = [h \in DOMAIN execMap \cup {pidSeq + 1} |->
                         IF h = pidSeq + 1 THEN Len(calls) + 1 ELSE execMap[h]]
      /\ work' = Patch(c, "Applying", pidSeq + 1, 0)
      /\ status[c].pid = 0 /\ status' = status
  BY DEF ExecScript, NextHandle
<1>4. /\ DOMAIN calls' = 1..(Len(calls) + 1)
      /\ calls'[Len(calls) + 1] = x
      /\ \A j \in DOMAIN calls : calls'[j] = calls[j]
  <2>1. x \in Calls /\ calls \in Seq(Calls)
    BY DEF Calls, TypeInv, TypeOK
  <2> HIDE DEF x
  <2> QED
    BY <1>2, <1>3, <2>1, AppendProperties, LenProperties
<1>5. /\ DOMAIN execMap' = DOMAIN execMap \cup {pidSeq + 1}
      /\ execMap'[pidSeq + 1] = Len(calls) + 1
      /\ \A h \in DOMAIN execMap : execMap'[h] = execMap[h]
  BY <1>2, <1>3
<1>6. work'.cfg = c /\ work'.pid = pidSeq + 1 /\ work'.call = 0
  BY <1>3 DEF Patch
<1>7. ASSUME NEW d \in Configs, d # c PROVE Own(d, status[d].pid)'
  <2>1. status[d].pid <= pidSeq /\ Own(d, status[d].pid)
    BY <1>1 DEF OwnStatus
  <2> SUFFICES ASSUME status[d].pid \in DOMAIN execMap
               PROVE  /\ calls'[execMap'[status[d].pid]].cfg = d
                      /\ \A j \in DOMAIN calls' : j > execMap'[status[d].pid] => calls'[j].cfg # d
    BY <1>2, <1>3, <1>5, <2>1 DEF Own
  <2> DEFINE i == execMap[status[d].pid]
  <2>2. i \in DOMAIN calls /\ execMap'[status[d].pid] = i /\ calls'[i].cfg = d
    BY <1>2, <1>4, <1>5, <2>1 DEF Own
  <2>3. ASSUME NEW j \in DOMAIN calls', j > i PROVE calls'[j].cfg # d
    <3>1. CASE j \in DOMAIN calls
      BY <1>4, <2>1, <2>3, <3>1 DEF Own
    <3>2. CASE j = Len(calls) + 1
      BY <1>4, <1>7, <3>2
    <3> QED
      BY <1>2, <1>4, <3>1, <3>2
  <2> QED
    BY <2>2, <2>3
<1>8. OwnStatus'
  <2>1. Own(c, status[c].pid)'
    BY <1>2, <1>3, <1>5 DEF Own
  <2>2. \A d \in Configs : status'[d].pid <= pidSeq'
    BY <1>1, <1>2, <1>3 DEF OwnStatus
  <2> QED
    BY <1>7, <2>1, <2>2 DEF OwnStatus
<1>9. Own(c, pidSeq + 1)'
  BY <1>2, <1>3, <1>4, <1>5 DEF Own
<1>10. OwnWork' /\ ResultIsOwn'
  BY <1>2, <1>3, <1>6, <1>9 DEF OwnWork, ResultIsOwn, Own
<1> QED
  BY <1>8, <1>10

LEMMA OwnPollDone ==
    ASSUME TypeInv, OwnInv, NEW c \in Configs, PollDone(c) PROVE OwnInv'
<1> DEFINE h == status[c].pid
<1>1. /\ h \in DOMAIN execMap /\ execMap[h] \in DOMAIN calls /\ execMap[h] \in Nat
      /\ DOMAIN execMap' = DOMAIN execMap \ {h}
      /\ \A g \in DOMAIN execMap' : execMap'[g] = execMap[g]
      /\ \/ work' = Patch(c, "Applied", 0, execMap[h])
         \/ \E i \in {0, execMap[h]} : work' = Patch(c, "Failed", 0, i)
         \/ work' = Nothing
      /\ UNCHANGED <<pidSeq, calls, status, abandoned, restarts, faults>>
  BY PollDoneEffect
<1>2. CASE work' = Nothing
  BY <1>1, <1>2, OwnQuiet
<1>3. CASE work' # Nothing
  <2> SUFFICES ASSUME restarts = 0 PROVE OwnStatus' /\ OwnWork' /\ ResultIsOwn'
    BY <1>1 DEF OwnInv
  <2>1. OwnStatus /\ Own(c, h)
    BY DEF OwnInv, OwnStatus
  <2>2. work'.cfg = c /\ work'.pid = 0 /\ work'.call \in {0, execMap[h]}
    BY <1>1, <1>3, PatchType DEF Phases
  <2>3. ResultIsOwn'
    BY <1>1, <2>1, <2>2 DEF ResultIsOwn, Own
  <2>4. OwnStatus'
    BY <1>1, <2>1 DEF OwnStatus, Own
  <2>5. pidSeq \in Nat /\ 0 \notin DOMAIN execMap
    BY Registered DEF TypeInv
  <2>6. OwnWork'
    BY <1>1, <2>2, <2>5 DEF OwnWork, Own
  <2> QED
    BY <2>3, <2>4, <2>6
<1> QED
  BY <1>2, <1>3

LEMMA OwnCallEnds ==
    ASSUME TypeInv, OwnInv, NEW i \in DOMAIN calls, CallEnds(i) PROVE OwnInv'
<1>1. DOMAIN calls' = DOMAIN calls /\ \A j \in DOMAIN calls : calls'[j].cfg = calls[j].cfg
  BY CallEndsEffect
<1>2. UNCHANGED <<execMap, pidSeq, status, work, restarts>>
  BY DEF CallEnds
<1>3. \A h \in DOMAIN execMap : execMap[h] \in DOMAIN calls
  BY DEF TypeInv, TypeOK
<1>5. OwnStatus => OwnStatus'
  <2>1. \A c \in Configs : Own(c, status[c].pid) => Own(c, status[c].pid)'
    BY <1>1, <1>2, <1>3 DEF Own
  <2> QED
    BY <1>2, <2>1 DEF OwnStatus
<1>6. OwnWork => OwnWork'
  <2>1. Own(work.cfg, work.pid) => Own(work.cfg, work.pid)'
    BY <1>1, <1>2, <1>3 DEF Own
  <2> QED
    BY <1>1, <1>2, <2>1 DEF OwnWork, Idle
<1>7. OwnWork /\ ResultIsOwn => ResultIsOwn'
  BY <1>1, <1>2 DEF OwnWork, ResultIsOwn, Idle, Nothing
<1> QED
  BY <1>2, <1>5, <1>6, <1>7 DEF OwnInv

LEMMA OwnStep == TypeInv /\ OwnInv /\ [Next]_vars => OwnInv'
<1> SUFFICES ASSUME TypeInv, OwnInv, [Next]_vars PROVE OwnInv'
  OBVIOUS
<1>1. CASE UNCHANGED vars
  BY <1>1, OwnQuiet DEF vars
<1>2. ASSUME NEW c \in Configs, ExecScript(c) \/ PollDone(c) PROVE OwnInv'
  BY <1>2, OwnExec, OwnPollDone
<1>3. ASSUME NEW c \in Configs, PollLost(c) \/ PollTimedOut(c) PROVE OwnInv'
  <2>1. work'.cfg = c /\ work'.pid = 0 /\ work'.call = 0
    BY <1>3, PatchType DEF PollLost, PollTimedOut, Lost, Phases
  <2>2. UNCHANGED <<execMap, pidSeq, calls, status, restarts>>
    BY <1>3 DEF PollLost, PollTimedOut
  <2> QED
    BY <2>1, <2>2, OwnQuiet
<1>4. ASSUME NEW c \in Configs, Reapply(c) \/ Recreate(c) PROVE OwnInv'
  <2>1. \A d \in Configs : status'[d].pid \in {0, status[d].pid}
    BY <1>4 DEF Reapply, Recreate, TypeInv, TypeOK, Statuses
  <2>2. UNCHANGED <<execMap, pidSeq, calls, work, restarts>>
    BY <1>4 DEF Reapply, Recreate
  <2> QED
    BY <2>1, <2>2, OwnQuiet
<1>5. CASE PatchStatus
  <2>1. \A c \in Configs : \/ status'[c].pid = status[c].pid
                           \/ ~Idle /\ c = work.cfg /\ status'[c].pid = work.pid
    BY <1>5 DEF PatchStatus, TypeInv, TypeOK
  <2>2. UNCHANGED <<execMap, pidSeq, calls, restarts>> /\ work' = Nothing
    BY <1>5 DEF PatchStatus
  <2> QED
    BY <2>1, <2>2, OwnQuiet
<1>6. CASE PatchStatusFails
  <2>1. UNCHANGED <<execMap, pidSeq, calls, status, restarts>> /\ work' = Nothing
    BY <1>6 DEF PatchStatusFails
  <2> QED
    BY <2>1, OwnQuiet
<1>7. CASE Return
  BY <1>7, OwnCallEnds DEF Return
<1>8. CASE OperatorRestart
  BY <1>8 DEF OperatorRestart, OwnInv, TypeInv, TypeOK
<1> QED
  BY <1>1, <1>2, <1>3, <1>4, <1>5, <1>6, <1>7, <1>8 DEF Next, Reconcile

LEMMA OwnInit == Init => OwnInv
BY DEF Init, OwnInv, OwnStatus, OwnWork, ResultIsOwn, Own, Idle, Nothing

\* Until the operator restarts, whatever is abandoned, deleted or left unpatched,
\* the result a config records is that of its own and last call (pidSeq).
THEOREM OwnResult == Spec => []OwnBeforeRestart
<1>1. OwnInv => OwnBeforeRestart
  BY DEF OwnInv, OwnBeforeRestart
<1> QED
  BY <1>1, TypeInit, TypeStep, OwnInit, OwnStep, PTL DEF Spec

----------------------------------------------------------------------------
(* The registry is bounded *)

\* The handle config c will ask for next, as far as it can still learn it.
Due(c) == IF ~Idle /\ work.cfg = c THEN work.pid ELSE status[c].pid
Held == {Due(c) : c \in Configs}

\* Every entry that nobody will ask for was counted when it was abandoned.
CountInv == Cardinality(DOMAIN execMap \ Held) <= abandoned

LEMMA RegistryFinite ==
    ASSUME TypeInv
    PROVE  /\ IsFiniteSet(DOMAIN execMap) /\ Cardinality(DOMAIN execMap) \in Nat
           /\ IsFiniteSet(DOMAIN execMap \ Held) /\ Cardinality(DOMAIN execMap \ Held) \in Nat
<1>1. DOMAIN execMap \subseteq 1..pidSeq /\ pidSeq \in Nat
  BY DEF TypeInv, TypeOK
<1>2. IsFiniteSet(1..pidSeq)
  BY <1>1, FS_Interval
<1>3. IsFiniteSet(DOMAIN execMap)
  BY <1>1, <1>2, FS_Subset
<1>4. IsFiniteSet(DOMAIN execMap \ Held)
  BY <1>3, FS_Difference
<1> QED
  BY <1>3, <1>4, FS_CardinalityType

\* A step that leaves no further entry unheld.
LEMMA CountKept ==
    ASSUME TypeInv, TypeInv', CountInv, abandoned' = abandoned,
           DOMAIN execMap' \ Held' \subseteq DOMAIN execMap \ Held
    PROVE  CountInv'
<1>1. IsFiniteSet(DOMAIN execMap \ Held) /\ Cardinality(DOMAIN execMap \ Held) \in Nat
  BY RegistryFinite
<1>2. IsFiniteSet(DOMAIN execMap' \ Held')
  BY <1>1, FS_Subset
<1>3. Cardinality(DOMAIN execMap' \ Held') <= Cardinality(DOMAIN execMap \ Held)
  BY <1>1, FS_Subset
<1>4. Cardinality(DOMAIN execMap' \ Held') \in Nat /\ abandoned \in Nat
  BY <1>2, FS_CardinalityType DEF TypeInv, TypeOK
<1> QED
  BY <1>1, <1>3, <1>4 DEF CountInv

\* A step that leaves one more entry unheld, and counts it.
LEMMA CountOne ==
    ASSUME TypeInv, TypeInv', CountInv, abandoned' = abandoned + 1, NEW h,
           DOMAIN execMap' \ Held' \subseteq (DOMAIN execMap \ Held) \cup {h}
    PROVE  CountInv'
<1> DEFINE S == DOMAIN execMap \ Held
           T == DOMAIN execMap' \ Held'
<1>1. IsFiniteSet(S) /\ Cardinality(S) \in Nat
  BY RegistryFinite
<1>2. IsFiniteSet(S \cup {h}) /\ Cardinality(S \cup {h}) <= Cardinality(S) + 1
      /\ Cardinality(S \cup {h}) \in Nat
  <2>1. /\ IsFiniteSet(S \cup {h})
        /\ Cardinality(S \cup {h}) = IF h \in S THEN Cardinality(S) ELSE Cardinality(S) + 1
    BY <1>1, FS_AddElement
  <2> HIDE DEF S
  <2> QED
    BY <1>1, <2>1
<1>3. IsFiniteSet(T) /\ Cardinality(T) <= Cardinality(S \cup {h}) /\ Cardinality(T) \in Nat
  BY <1>2, FS_Subset, FS_CardinalityType
<1>4. abandoned \in Nat /\ Cardinality(S) <= abandoned
  BY DEF TypeInv, TypeOK, CountInv
<1> QED
  BY <1>1, <1>2, <1>3, <1>4 DEF CountInv

\* When only config c may wait for another handle, no other handle is let go.
LEMMA HeldBut ==
    ASSUME NEW c \in Configs, \A d \in Configs : d # c => Due(d)' = Due(d)
    PROVE  Held \ {Due(c)} \subseteq Held'
BY DEF Held

LEMMA HeldAll ==
    ASSUME \A d \in Configs : Due(d)' = Due(d)
    PROVE  Held' = Held
BY DEF Held

LEMMA CountQuiet ==
    ASSUME TypeInv, CountInv, UNCHANGED <<execMap, pidSeq, status, work, abandoned>>
    PROVE  CountInv'
BY DEF CountInv, Held, Due, Idle

LEMMA CountExec ==
    ASSUME TypeInv, TypeInv', CountInv, NEW c \in Configs, ExecScript(c) PROVE CountInv'
<1>1. 0 \notin DOMAIN execMap /\ pidSeq \in Nat
  BY Registered DEF TypeInv
<1>2. /\ Idle /\ status[c].pid = 0 /\ work' = Patch(c, "Applying", pidSeq + 1, 0)
      /\ DOMAIN execMap' = DOMAIN execMap \cup {pidSeq + 1}
      /\ UNCHANGED <<status, abandoned>>
  BY DEF ExecScript, NextHandle
<1>3. ~Idle' /\ work'.cfg = c /\ work'.pid = pidSeq + 1
  BY <1>1, <1>2, PatchType DEF Idle, Phases
<1>4. \A d \in Configs : d # c => Due(d)' = Due(d)
  BY <1>2, <1>3 DEF Due
<1>5. Due(c) = 0 /\ Due(c)' = pidSeq + 1
  BY <1>2, <1>3 DEF Due
<1>6. pidSeq + 1 \in Held' /\ Held \ {0} \subseteq Held'
  BY <1>4, <1>5, HeldBut DEF Held
<1> QED
  BY <1>1, <1>2, <1>6, CountKept

LEMMA CountPoll ==
    ASSUME TypeInv, TypeInv', CountInv, NEW c \in Configs, PollLost(c) \/ PollDone(c)
    PROVE  CountInv'
<1> DEFINE h == status[c].pid
<1>1. /\ DOMAIN execMap' = DOMAIN execMap \ {h}
      /\ UNCHANGED <<status, abandoned>> /\ Idle
  <2>1. CASE PollLost(c)
    BY <2>1 DEF PollLost, Polling
  <2>2. CASE PollDone(c)
    BY <2>2, PollDoneEffect DEF PollDone, Polling
  <2> QED
    BY <2>1, <2>2
<1>2. work' = Nothing \/ work'.cfg = c
  <2>1. CASE PollLost(c)
    BY <2>1, PatchType DEF PollLost, Lost, Phases
  <2>2. CASE PollDone(c)
    <3>1. /\ execMap[h] \in Nat
          /\ \/ work' = Patch(c, "Applied", 0, execMap[h])
             \/ \E i \in {0, execMap[h]} : work' = Patch(c, "Failed", 0, i)
             \/ work' = Nothing
      BY <2>2, PollDoneEffect
    <3> QED
      BY <3>1, PatchType DEF Phases
  <2> QED
    BY <2>1, <2>2
<1>3. \A d \in Configs : d # c => Due(d)' = Due(d)
  BY <1>1, <1>2 DEF Due, Idle
<1>4. Due(c) = h
  BY <1>1 DEF Due
<1>5. Held \ {h} \subseteq Held'
  BY <1>3, <1>4, HeldBut
<1> QED
  BY <1>1, <1>5, CountKept

LEMMA CountPollTimedOut ==
    ASSUME TypeInv, TypeInv', CountInv, NEW c \in Configs, PollTimedOut(c) PROVE CountInv'
<1> DEFINE h == status[c].pid
<1>1. Idle /\ work' = Patch(c, "Failed", 0, 0) /\ abandoned' = abandoned + 1
      /\ UNCHANGED <<execMap, status>>
  BY DEF PollTimedOut, Polling
<1>2. work'.cfg = c
  BY <1>1, PatchType DEF Phases
<1>3. \A d \in Configs : d # c => Due(d)' = Due(d)
  BY <1>1, <1>2 DEF Due
<1>4. Due(c) = h
  BY <1>1 DEF Due
<1>5. Held \ {h} \subseteq Held'
  BY <1>3, <1>4, HeldBut
<1> QED
  BY <1>1, <1>5, CountOne

LEMMA CountPatchStatus ==
    ASSUME TypeInv, TypeInv', CountInv, PatchStatus PROVE CountInv'
<1>1. ~Idle /\ work.cfg \in Configs /\ Idle'
  BY WorkType DEF PatchStatus, Idle
<1>2. /\ status' = [status EXCEPT ![work.cfg] = [phase |-> work.phase, pid |-> work.pid]]
      /\ UNCHANGED <<execMap, abandoned>>
  BY DEF PatchStatus
<1>3. \A d \in Configs : Due(d)' = Due(d)
  BY <1>1, <1>2 DEF Due, TypeInv, TypeOK
<1> QED
  BY <1>2, <1>3, HeldAll, CountKept

LEMMA CountPatchStatusFails ==
    ASSUME TypeInv, TypeInv', CountInv, PatchStatusFails PROVE CountInv'
<1>1. ~Idle /\ work.cfg \in Configs /\ work.pid \in Nat /\ Idle'
  BY WorkType DEF PatchStatusFails, Idle
<1>2. /\ abandoned' = IF work.pid > 0 THEN abandoned + 1 ELSE abandoned
      /\ UNCHANGED <<execMap, status>>
  BY DEF PatchStatusFails
<1>3. \A d \in Configs : d # work.cfg => Due(d)' = Due(d)
  BY <1>1, <1>2 DEF Due
<1>4. Due(work.cfg) = work.pid
  BY <1>1 DEF Due
<1>5. Held \ {work.pid} \subseteq Held'
  BY <1>1, <1>3, <1>4, HeldBut
<1>6. CASE work.pid > 0
  BY <1>2, <1>5, <1>6, CountOne
<1>7. CASE work.pid = 0
  <2>1. 0 \notin DOMAIN execMap
    BY Registered DEF TypeInv
  <2> QED
    BY <1>2, <1>5, <1>7, <2>1, CountKept
<1> QED
  BY <1>1, <1>6, <1>7

LEMMA CountReapply ==
    ASSUME TypeInv, TypeInv', CountInv, NEW c \in Configs, Reapply(c) PROVE CountInv'
<1>1. UNCHANGED <<execMap, work, abandoned>> /\ \A d \in Configs : status'[d].pid = status[d].pid
  BY DEF Reapply, TypeInv, TypeOK, Statuses
<1>2. \A d \in Configs : Due(d)' = Due(d)
  BY <1>1 DEF Due, Idle
<1> QED
  BY <1>1, <1>2, HeldAll, CountKept

LEMMA CountRecreate ==
    ASSUME TypeInv, TypeInv', CountInv, NEW c \in Configs, Recreate(c) PROVE CountInv'
<1> DEFINE h == status[c].pid
<1>1. /\ Idle /\ UNCHANGED <<execMap, work>>
      /\ abandoned' = IF h \in DOMAIN execMap THEN abandoned + 1 ELSE abandoned
      /\ \A d \in Configs : d # c => status'[d] = status[d]
  BY DEF Recreate, TypeInv, TypeOK
<1>2. \A d \in Configs : d # c => Due(d)' = Due(d)
  BY <1>1 DEF Due, Idle
<1>3. Due(c) = h
  BY <1>1 DEF Due
<1>4. Held \ {h} \subseteq Held'
  BY <1>2, <1>3, HeldBut
<1>5. CASE h \in DOMAIN execMap
  BY <1>1, <1>4, <1>5, CountOne
<1>6. CASE h \notin DOMAIN execMap
  BY <1>1, <1>4, <1>6, CountKept
<1> QED
  BY <1>5, <1>6

\* Nothing is registered: when the operator starts.
LEMMA CountEmpty == ASSUME execMap = <<>>, abandoned = 0 PROVE CountInv
<1>1. DOMAIN execMap \ Held = {}
  OBVIOUS
<1> QED
  BY <1>1, FS_EmptySet DEF CountInv

LEMMA CountRestart == ASSUME OperatorRestart PROVE CountInv'
<1>1. DOMAIN execMap' \ Held' = {} /\ abandoned' = 0
  BY DEF OperatorRestart
<1> QED
  BY <1>1, FS_EmptySet DEF CountInv

LEMMA CountStep == TypeInv /\ TypeInv' /\ CountInv /\ [Next]_vars => CountInv'
<1> SUFFICES ASSUME TypeInv, TypeInv', CountInv, [Next]_vars PROVE CountInv'
  OBVIOUS
<1>1. CASE UNCHANGED vars
  BY <1>1, CountQuiet DEF vars
<1>2. ASSUME NEW c \in Configs, ExecScript(c) \/ PollLost(c) \/ PollDone(c) PROVE CountInv'
  BY <1>2, CountExec, CountPoll
<1>3. CASE PatchStatus
  BY <1>3, CountPatchStatus
<1>4. CASE Return
  BY <1>4, CountQuiet DEF Return, CallEnds
<1>5. ASSUME NEW c \in Configs, PollTimedOut(c) \/ Reapply(c) \/ Recreate(c) PROVE CountInv'
  BY <1>5, CountPollTimedOut, CountReapply, CountRecreate
<1>6. CASE PatchStatusFails
  BY <1>6, CountPatchStatusFails
<1>7. CASE OperatorRestart
  BY <1>7, CountRestart
<1> QED
  BY <1>1, <1>2, <1>3, <1>4, <1>5, <1>6, <1>7 DEF Next, Reconcile

\* One config waits for at most one entry.
LEMMA HeldFew ==
    ASSUME IsFiniteSet(Configs)
    PROVE  IsFiniteSet(Held) /\ Cardinality(Held) <= Cardinality(Configs)
<1> DEFINE due == [c \in Configs |-> Due(c)]
<1>1. due \in Surjection(Configs, Held)
  BY DEF Held, Surjection
<1> QED
  BY <1>1, FS_Surjection

\* The registry never holds more than one entry per config and one for each handle
\* whose config timed out, was deleted or never learned it: GetExecStatus deletes
\* what it reports.
THEOREM RegistryIsBounded ==
    ASSUME IsFiniteSet(Configs) PROVE Spec => []RegistryBounded
<1>1. TypeInv /\ CountInv => RegistryBounded
  <2> SUFFICES ASSUME TypeInv, CountInv PROVE RegistryBounded
    OBVIOUS
  <2> DEFINE D == DOMAIN execMap
  <2>1. IsFiniteSet(D) /\ Cardinality(D) \in Nat
        /\ IsFiniteSet(D \ Held) /\ Cardinality(D \ Held) \in Nat
    BY RegistryFinite
  <2>2. IsFiniteSet(Held) /\ Cardinality(Held) <= Cardinality(Configs)
        /\ Cardinality(Configs) \in Nat /\ Cardinality(Held) \in Nat
    BY HeldFew, FS_CardinalityType
  <2>3. IsFiniteSet(D \cap Held) /\ Cardinality(D \cap Held) \in Nat
        /\ Cardinality(D \cap Held) <= Cardinality(Held)
    BY <2>2, FS_Subset, FS_CardinalityType
  <2>4. Cardinality(D \ Held) = Cardinality(D) - Cardinality(D \cap Held)
    BY <2>1, FS_Difference
  <2>5. abandoned \in Nat
    BY DEF TypeInv, TypeOK
  <2> HIDE DEF D
  <2> QED
    BY <2>1, <2>2, <2>3, <2>4, <2>5 DEF CountInv, RegistryBounded, D
<1>2. Init => CountInv
  BY CountEmpty DEF Init
<1> QED
  BY <1>1, <1>2, TypeInit, TypeStep, CountStep, PTL DEF Spec
=============================================================================
