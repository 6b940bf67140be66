------------------------- MODULE ProxmoxCluster_proofs -------------------------
(***************************************************************************)
(* Proofs about the sync of a ProxmoxCluster, for every interval, delay    *)
(* and bound: what lastRebootTime may hold, that no reboot is missed, and  *)
(* that a destroyed VM loses its node in time.                             *)
(***************************************************************************)
EXTENDS ProxmoxCluster, TLAPS

\* The time of one sync: its interval, how late it may start, and its poll.
Round == SyncInterval + Slack + PollDelay
Busy == pc # "idle"

\* How the clocks relate: nothing observed lies in the future, a sync in progress is
\* young, and one that is due starts in time.
Clocks ==
    /\ Start <= clock /\ host <= clock /\ now <= clock /\ downAt <= clock /\ lastSync <= clock
    /\ uptime <= now /\ guest <= clock + BootDelay /\ wake <= clock + SyncInterval
    /\ \A e \in reboots : Start <= e /\ e <= clock
    /\ Busy => Start <= now /\ clock <= now + PollDelay /\ lastSync + SyncInterval <= now
    /\ pc = "host" => clock = now
    /\ pc = "guest" => uptime >= 0
    /\ ~Busy => clock <= wake + Slack

LEMMA NextTime ==
    ASSUME NEW at \in Int, NEW up \in Int, NEW current \in Nat, up <= at
    PROVE  /\ nextRebootTime(at, up, current) \in Nat
           /\ nextRebootTime(at, up, current) = current
                 \/ (/\ nextRebootTime(at, up, current) = at - up
                     /\ current = 0 \/ current + Tolerance < at - up)
BY SyncAssumption DEF nextRebootTime

LEMMA FetchUptime ==
    ASSUME TypeOK, Clocks, Fetch
    PROVE  /\ uptime' \in Nat \cup {-1} /\ uptime' <= clock
           /\ vm = "running" => uptime' = clock - host
           /\ vm = "stopped" => uptime' = 0
           /\ vm = "gone" => uptime' = -1
<1>1. vm = "running" => uptime' = clock - host
  BY DEF Fetch
<1>2. vm = "stopped" => uptime' = 0
  BY DEF Fetch
<1>3. vm = "gone" => uptime' = -1
  BY DEF Fetch
<1>4. QED
  BY <1>1, <1>2, <1>3 DEF TypeOK, Clocks

(***************************************************************************)
(* Types and clocks.                                                       *)
(***************************************************************************)

\* What patching a status does to its fields.
LEMMA StatusFields ==
    ASSUME TypeOK
    PROVE  /\ target.reboot \in Nat /\ target.node \in BOOLEAN /\ target.running \in BOOLEAN
           /\ t.reboot \in Nat /\ t.node \in BOOLEAN /\ t.running \in BOOLEAN
BY DEF TypeOK

LEMMA StatusPatched ==
    ASSUME NEW s \in [node : BOOLEAN, running : BOOLEAN, reboot : Nat],
           NEW n \in BOOLEAN, NEW b \in BOOLEAN, NEW r \in Nat
    PROVE  /\ [s EXCEPT !.node = n, !.reboot = r] \in [node : BOOLEAN, running : BOOLEAN, reboot : Nat]
           /\ [s EXCEPT !.running = b] \in [node : BOOLEAN, running : BOOLEAN, reboot : Nat]
           /\ [s EXCEPT !.reboot = r] \in [node : BOOLEAN, running : BOOLEAN, reboot : Nat]
           /\ [s EXCEPT !.node = n, !.reboot = r].node = n
           /\ [s EXCEPT !.node = n, !.reboot = r].reboot = r
           /\ [s EXCEPT !.reboot = r].reboot = r
           /\ [s EXCEPT !.reboot = r].node = s.node
           /\ [s EXCEPT !.running = b].node = s.node
           /\ [s EXCEPT !.running = b].reboot = s.reboot
OBVIOUS

\* What each action that writes a status makes of it.
LEMMA StopWrites ==
    ASSUME TypeOK, FetchFails \/ TargetPoll
    PROVE  /\ target' \in [node : BOOLEAN, running : BOOLEAN, reboot : Nat]
           /\ target'.node = target.node /\ target'.reboot = target.reboot
<1>1. PICK b \in BOOLEAN : target' \in {target, [target EXCEPT !.running = b]}
  BY DEF FetchFails, TargetPoll
<1>2. target \in [node : BOOLEAN, running : BOOLEAN, reboot : Nat]
  BY DEF TypeOK
<1>3. /\ [target EXCEPT !.running = b] \in [node : BOOLEAN, running : BOOLEAN, reboot : Nat]
      /\ [target EXCEPT !.running = b].node = target.node
      /\ [target EXCEPT !.running = b].reboot = target.reboot
  BY <1>2
<1>4. QED
  BY <1>1, <1>2, <1>3

LEMMA HostWrites ==
    ASSUME TypeOK, Clocks, HostUptime
    PROVE  /\ t' \in [node : BOOLEAN, running : BOOLEAN, reboot : Nat]
           /\ t'.node = (uptime >= 0)
           /\ t'.reboot = IF Recent(uptime) THEN nextRebootTime(now, uptime, t.reboot) ELSE t.reboot
<1> DEFINE r == IF Recent(uptime) THEN nextRebootTime(now, uptime, t.reboot) ELSE t.reboot
<1>1. r \in Nat
  BY NextTime, StatusFields DEF TypeOK, Clocks
<1>2. t' = [t EXCEPT !.node = (uptime >= 0), !.reboot = r]
  BY DEF HostUptime, desiredProxmoxNode
<1> HIDE DEF r
<1>3. (uptime >= 0) \in BOOLEAN
  OBVIOUS
<1>4. QED
  BY <1>1, <1>2, <1>3, StatusPatched DEF TypeOK, r

LEMMA GuestWrites ==
    ASSUME TypeOK, Clocks, GuestUptime
    PROVE  /\ t' \in [node : BOOLEAN, running : BOOLEAN, reboot : Nat]
           /\ t'.node = t.node
           /\ \E m \in now..clock :
                 /\ m >= guest
                 /\ t'.reboot = IF Recent(m - guest) THEN nextRebootTime(clock, m - guest, t.reboot)
                                                     ELSE t.reboot
<1>1. PICK m \in now..clock :
         /\ m >= guest
         /\ t' = [t EXCEPT !.reboot = IF Recent(m - guest)
                                      THEN nextRebootTime(clock, m - guest, @) ELSE @]
  BY DEF GuestUptime
<1> DEFINE r == IF Recent(m - guest) THEN nextRebootTime(clock, m - guest, t.reboot) ELSE t.reboot
<1>2. r \in Nat
  <2>1. m \in Int /\ m - guest \in Int /\ m - guest <= clock
    BY <1>1 DEF TypeOK
  <2>2. QED
    BY <2>1, NextTime, StatusFields DEF TypeOK
<1>3. t' = [t EXCEPT !.reboot = r]
  BY <1>1
<1> HIDE DEF r
<1>4. t \in [node : BOOLEAN, running : BOOLEAN, reboot : Nat]
  BY DEF TypeOK
<1>5. /\ t' \in [node : BOOLEAN, running : BOOLEAN, reboot : Nat]
      /\ t'.node = t.node /\ t'.reboot = r
  BY <1>2, <1>3, <1>4
<1>6. QED
  BY <1>1, <1>5 DEF r

LEMMA PatchWrites ==
    ASSUME TypeOK, PatchTarget
    PROVE  /\ target' \in [node : BOOLEAN, running : BOOLEAN, reboot : Nat]
           /\ target'.node = t.node /\ target'.reboot = t.reboot
BY StatusPatched, StatusFields DEF TypeOK, PatchTarget

LEMMA StartType ==
    Init => TypeOK /\ Clocks
BY SyncAssumption DEF Init, NoCopy, TypeOK, Clocks, Start, Busy

LEMMA TypeStep ==
    ASSUME TypeOK, Clocks, [Next]_vars
    PROVE  TypeOK' /\ Clocks'
<1> USE SyncAssumption DEF TypeOK, Clocks, Start, Busy
<1>1. CASE NotYet
  BY <1>1 DEF NotYet, outside, local
<1>2. CASE Fetch
  BY <1>2, FetchUptime DEF Fetch, outside
<1>3. CASE FetchFails
  BY <1>3, StopWrites DEF FetchFails, Fault, outside, local
<1>4. CASE HostUptime
  BY <1>4, HostWrites DEF HostUptime, outside
<1>5. CASE GuestUptime
  BY <1>5, GuestWrites DEF GuestUptime, outside
<1>6. CASE GuestUptimeFails
  BY <1>6 DEF GuestUptimeFails, Fault, outside
<1>7. CASE PatchTarget
  <2>1. /\ target' \in [node : BOOLEAN, running : BOOLEAN, reboot : Nat] /\ t.reboot \in Nat
    BY <1>7, PatchWrites, StatusFields
  <2>2. /\ UNCHANGED <<clock, vm, host, guest, reboots, downAt>>
        /\ published' = IF t.reboot = 0 THEN published ELSE published \cup {t.reboot}
        /\ pc' = "idle" /\ t' = NoCopy /\ now' = 0 /\ uptime' = -1 /\ faults' \in {faults, faults + 1}
        /\ \/ lastSync' = now /\ wake' = clock + SyncInterval
           \/ lastSync' = lastSync /\ wake' = clock
        /\ Busy
    BY <1>7 DEF PatchTarget, Synced, Return, Fault, outside
  <2>3. published' \subseteq Nat \ {0}
    BY <2>1, <2>2
  <2>4. TypeOK'
    BY <2>1, <2>2, <2>3 DEF NoCopy
  <2>5. Clocks'
    <3>1. /\ {clock, now, lastSync, wake, SyncInterval, Slack} \subseteq Nat
          /\ now <= clock /\ lastSync <= clock
      OBVIOUS
    <3>2. lastSync' <= clock /\ wake' <= clock + SyncInterval /\ clock <= wake' + Slack
      BY <2>2, <3>1
    <3>3. Start <= clock /\ 0 <= clock /\ uptime' <= now'
      BY <2>2
    <3>4. QED
      BY <2>2, <3>2, <3>3
  <2>6. QED
    BY <2>4, <2>5
<1>8. CASE PatchTargetFails
  BY <1>8 DEF PatchTargetFails, Synced, Return, NoCopy, Fault, outside
<1>9. CASE TargetPoll
  BY <1>9, StopWrites DEF TargetPoll, outside, local
<1>10. CASE OperatorRestart
  BY <1>10 DEF OperatorRestart, Return, NoCopy, Fault, outside
<1>11. CASE Reboot
  <2>1. /\ host' \in {host, clock} /\ guest' = clock + BootDelay /\ vm' = "running"
        /\ reboots' = reboots \cup {clock}
        /\ UNCHANGED <<clock, downAt, published, target, lastSync, wake, pc, t, now, uptime, faults>>
    BY <1>11 DEF Reboot, local
  <2>2. TypeOK'
    <3>1. clock \in Nat /\ host \in Nat /\ reboots \subseteq Nat
      OBVIOUS
    <3>2. host' \in Nat /\ guest' \in Nat
      BY <2>1, <3>1
    <3>3. reboots' \subseteq Nat
      BY <2>1, <3>1
    <3>4. QED
      BY <2>1, <3>2, <3>3
  <2>3. Clocks'
    BY <2>1
  <2>4. QED
    BY <2>2, <2>3
<1>12. CASE StopOrDestroy
  BY <1>12 DEF StopOrDestroy, local
<1>13. CASE Tick
  BY <1>13 DEF Tick, outside, local
<1>14. CASE UNCHANGED vars
  BY <1>14 DEF vars, outside, local
<1>15. QED
  BY <1>1, <1>2, <1>3, <1>4, <1>5, <1>6, <1>7, <1>8, <1>9, <1>10, <1>11, <1>12, <1>13, <1>14
     DEF Next, Sync

\* Every variable keeps its type: no uptime is dated before time begins, nor after now.
THEOREM TypeCorrect == Spec => []TypeOK
<1>1. Spec => [](TypeOK /\ Clocks)
  BY StartType, TypeStep, PTL DEF Spec
<1>2. QED
  BY <1>1, PTL

(***************************************************************************)
(* lastRebootTime.                                                         *)
(***************************************************************************)

\* What the sync's own copy may hold.
Advance ==
    /\ target.reboot <= clock /\ t.reboot <= clock
    /\ Busy => target.reboot <= t.reboot

\* Machine and guest start at a reboot, or were up at the start; so was what the sync saw.
Starts ==
    /\ host \in reboots \cup {0}
    /\ guest = 0 \/ guest - BootDelay \in reboots
    /\ \A e \in reboots : e <= guest - BootDelay
    /\ pc = "host" /\ 0 < uptime => now - uptime \in reboots \cup {0}

\* Steps that neither observe the VM nor patch its stamp.
LEMMA Aside ==
    ASSUME TypeOK, [Next]_vars, ~Fetch, ~HostUptime, ~GuestUptime, ~PatchTarget
    PROVE  /\ UNCHANGED published /\ target'.reboot = target.reboot
           /\ reboots \subseteq reboots' /\ clock <= clock'
           /\ pc' \in {pc, "idle"} \/ (pc = "guest" /\ pc' = "patch")
           /\ UNCHANGED <<t, now, uptime>> \/ (pc' = "idle" /\ t' = NoCopy)
<1>1. CASE FetchFails \/ TargetPoll
  BY <1>1, StopWrites DEF FetchFails, TargetPoll, outside, local, TypeOK
<1>2. CASE NotYet \/ GuestUptimeFails \/ PatchTargetFails \/ OperatorRestart
  BY <1>2 DEF NotYet, GuestUptimeFails, PatchTargetFails, OperatorRestart, Synced, Return, outside, local, TypeOK
<1>3. CASE Reboot \/ StopOrDestroy \/ Tick
  BY <1>3 DEF Reboot, StopOrDestroy, Tick, outside, local, TypeOK
<1>4. CASE UNCHANGED vars
  BY <1>4 DEF vars, outside, local, TypeOK
<1>5. QED
  BY <1>1, <1>2, <1>3, <1>4 DEF Next, Sync

\* Until the patch, nothing of the target's stamp changes; and the patch writes the copy's.
LEMMA Observed ==
    ASSUME TypeOK, Clocks, Fetch \/ HostUptime \/ GuestUptime
    PROVE  /\ UNCHANGED <<clock, reboots, host, guest, published, target>> /\ Busy' /\ (Busy \/ Fetch)
           /\ Fetch => t' = target
BY DEF Fetch, HostUptime, GuestUptime, outside, Busy

\* A stamp that moves on dates a start within 1.5 x syncInterval, later than the last one.
LEMMA HostStamp ==
    ASSUME TypeOK, Clocks, HostUptime
    PROVE  \/ t'.reboot = t.reboot
           \/ /\ 0 < uptime /\ 2 * uptime <= 3 * SyncInterval /\ t'.reboot = now - uptime
              /\ t.reboot = 0 \/ t.reboot + Tolerance < t'.reboot
<1>1. CASE ~Recent(uptime)
  BY <1>1, HostWrites
<1>2. CASE Recent(uptime)
  <2>1. now \in Int /\ uptime \in Int /\ t.reboot \in Nat /\ uptime <= now
    BY StatusFields DEF TypeOK, Clocks
  <2>2. t'.reboot = nextRebootTime(now, uptime, t.reboot)
    BY <1>2, HostWrites
  <2>3. 0 < uptime /\ 2 * uptime <= 3 * SyncInterval
    BY <1>2 DEF Recent, Threshold
  <2>4. QED
    BY <2>1, <2>2, <2>3, SyncAssumption DEF nextRebootTime
<1>3. QED
  BY <1>1, <1>2

LEMMA GuestStamp ==
    ASSUME TypeOK, Clocks, GuestUptime
    PROVE  \/ t'.reboot = t.reboot
           \/ \E m \in now..clock :
                 /\ guest < m /\ 2 * (m - guest) <= 3 * SyncInterval
                 /\ t'.reboot = clock - (m - guest)
                 /\ t.reboot = 0 \/ t.reboot + Tolerance < t'.reboot
<1>1. PICK m \in now..clock :
         /\ m >= guest
         /\ t'.reboot = IF Recent(m - guest) THEN nextRebootTime(clock, m - guest, t.reboot)
                                             ELSE t.reboot
  BY GuestWrites
<1>2. m \in Int /\ clock \in Nat /\ guest \in Nat /\ t.reboot \in Nat
  BY <1>1, StatusFields DEF TypeOK
<1>3. CASE Recent(m - guest)
  <2>1. t'.reboot = nextRebootTime(clock, m - guest, t.reboot)
    BY <1>1, <1>3
  <2>2. m - guest \in Int /\ m - guest <= clock
    BY <1>1, <1>2
  <2>3. 0 < m - guest /\ 2 * (m - guest) <= 3 * SyncInterval
    BY <1>3 DEF Recent, Threshold
  <2>4. guest < m
    BY <1>2, <2>3
  <2>5. \/ t'.reboot = t.reboot
        \/ /\ t'.reboot = clock - (m - guest)
           /\ t.reboot = 0 \/ t.reboot + Tolerance < t'.reboot
    BY <1>2, <2>1, SyncAssumption DEF nextRebootTime
  <2>6. QED
    BY <1>1, <2>3, <2>4, <2>5
<1>4. QED
  BY <1>1, <1>3

LEMMA AdvanceStep ==
    ASSUME TypeOK, Clocks, Advance, [Next]_vars
    PROVE  Advance'
<1>1. CASE Fetch
  BY <1>1, Observed, StatusFields DEF Advance, TypeOK
<1>2. CASE HostUptime
  <2>1. t.reboot <= t'.reboot /\ t'.reboot <= clock
    BY <1>2, HostStamp, StatusFields, SyncAssumption DEF Advance, Clocks, TypeOK
  <2>2. QED
    BY <1>2, <2>1, Observed, StatusFields, HostWrites DEF Advance, TypeOK, Busy
<1>3. CASE GuestUptime
  <2>1. t.reboot <= t'.reboot /\ t'.reboot <= clock
    BY <1>3, GuestStamp, StatusFields, SyncAssumption DEF Advance, Clocks, TypeOK
  <2>2. QED
    BY <1>3, <2>1, Observed, StatusFields, GuestWrites DEF Advance, TypeOK, Busy
<1>4. CASE PatchTarget
  BY <1>4, PatchWrites, StatusFields DEF Advance, PatchTarget, Synced, Return, NoCopy, Busy, TypeOK
<1>5. CASE ~Fetch /\ ~HostUptime /\ ~GuestUptime /\ ~PatchTarget
  <2>1. clock' \in Nat
    BY TypeStep DEF TypeOK
  <2>2. QED
    BY <1>5, <2>1, Aside, StatusFields DEF Advance, NoCopy, Busy, TypeOK
<1>6. QED
  BY <1>1, <1>2, <1>3, <1>4, <1>5

\* No step moves lastRebootTime back, and none sets it beyond the present (onChange,
\* nextRebootTime): a reader that compares it with the last one it acted on misses none.
THEOREM Advances == Spec => RebootTimeAdvances
<1>1. Init => Advance
  BY SyncAssumption DEF Init, NoCopy, Advance, Start, Busy
<1>2. Spec => [](TypeOK /\ Clocks /\ Advance)
  BY <1>1, StartType, TypeStep, AdvanceStep, PTL DEF Spec
<1>3. ASSUME TypeOK, Clocks, Advance, [Next]_vars
      PROVE  target'.reboot >= target.reboot /\ target'.reboot <= clock
  <2>1. CASE Fetch \/ HostUptime \/ GuestUptime
    BY <1>3, <2>1, Observed, StatusFields DEF Advance, TypeOK
  <2>2. CASE PatchTarget
    BY <1>3, <2>2, PatchWrites, StatusFields DEF Advance, PatchTarget, Busy, TypeOK
  <2>3. CASE ~Fetch /\ ~HostUptime /\ ~GuestUptime /\ ~PatchTarget
    BY <1>3, <2>3, Aside, StatusFields DEF Advance, TypeOK
  <2>4. QED
    BY <2>1, <2>2, <2>3
<1>4. QED
  BY <1>2, <1>3, PTL DEF Spec, RebootTimeAdvances

\* What a start seen in the last 1.5 x syncInterval dates: a reboot, for time began longer ago.
LEMMA HostDated ==
    ASSUME TypeOK, Clocks, Starts, HostUptime, 0 < uptime, 2 * uptime <= 3 * SyncInterval
    PROVE  now - uptime \in reboots
<1>1. pc = "host"
  BY DEF HostUptime
<1>2. now - uptime # 0
  BY <1>1, SyncAssumption DEF TypeOK, Clocks, Start, Busy
<1>3. QED
  BY <1>1, <1>2 DEF Starts

LEMMA GuestDated ==
    ASSUME TypeOK, Clocks, Starts, GuestUptime,
           NEW m \in now..clock, guest < m, 2 * (m - guest) <= 3 * SyncInterval
    PROVE  /\ guest - BootDelay \in reboots
           /\ guest <= clock - (m - guest) /\ clock - (m - guest) <= guest + PollDelay
<1>1. Start <= now /\ clock <= now + PollDelay
  BY DEF GuestUptime, Clocks, Busy
<1>2. guest # 0
  BY <1>1, SyncAssumption DEF TypeOK, Start
<1>3. QED
  BY <1>1, <1>2, SyncAssumption DEF TypeOK, Starts

LEMMA StartsStep ==
    ASSUME TypeOK, Clocks, Starts, [Next]_vars
    PROVE  Starts'
<1>1. CASE Fetch
  BY <1>1, Observed, FetchUptime DEF Starts, Fetch, TypeOK
<1>2. CASE HostUptime \/ GuestUptime
  BY <1>2, Observed DEF Starts, HostUptime, GuestUptime
<1>3. CASE Reboot
  <2>1. /\ host' \in {host, clock} /\ guest' = clock + BootDelay /\ reboots' = reboots \cup {clock}
        /\ UNCHANGED <<pc, now, uptime>>
    BY <1>3 DEF Reboot, local
  <2>2. \A e \in reboots' : e \in Nat /\ e <= clock
    BY <2>1 DEF TypeOK, Clocks
  <2>3. guest' - BootDelay = clock
    BY <2>1, SyncAssumption DEF TypeOK
  <2>4. QED
    BY <2>1, <2>2, <2>3 DEF Starts
<1>4. CASE UNCHANGED <<host, guest, reboots>> /\ (pc' = "host" => pc = "host" /\ UNCHANGED <<now, uptime>>)
  BY <1>4 DEF Starts
<1>5. CASE ~Fetch /\ ~HostUptime /\ ~GuestUptime /\ ~Reboot
  <2>1. UNCHANGED <<host, guest, reboots>>
    BY <1>5 DEF Next, Sync, NotYet, FetchFails, GuestUptimeFails, PatchTarget, PatchTargetFails,
                TargetPoll, OperatorRestart, StopOrDestroy, Tick, outside, vars
  <2>2. CASE PatchTarget
    BY <1>4, <2>1, <2>2 DEF PatchTarget, Synced, Return
  <2>3. CASE ~PatchTarget
    BY <1>4, <1>5, <2>1, <2>3, Aside
  <2>4. QED
    BY <2>2, <2>3
<1>6. QED
  BY <1>1, <1>2, <1>3, <1>5

(***************************************************************************)
(* What two values of lastRebootTime tell apart.                           *)
(***************************************************************************)

Apart(v, w) == Between(v, w) \/ Restamped(v, w)

\* Steps that are apart add up: a second late reading of one reboot is late for the first.
LEMMA ApartOn ==
    ASSUME TypeOK, NEW u \in Nat, NEW v \in Nat, NEW w \in Nat, u < v, v < w,
           Apart(u, v), Apart(v, w)
    PROVE  Apart(u, w)
<1>1. \A e \in reboots : e \in Nat
  BY DEF TypeOK
<1>2. CASE Between(u, v) \/ Between(v, w)
  BY <1>1, <1>2 DEF Apart, Between
<1>3. CASE Restamped(u, v) /\ Restamped(v, w)
  <2>1. PICK e \in reboots : e <= v /\ w <= e + BootDelay + PollDelay
    BY <1>3 DEF Restamped
  <2>2. u + Tolerance < w
    BY <1>3, SyncAssumption DEF Restamped
  <2>3. CASE e <= u
    BY <2>1, <2>2, <2>3 DEF Apart, Restamped
  <2>4. CASE u < e
    BY <1>1, <2>1, <2>4 DEF Apart, Between
  <2>5. QED
    BY <1>1, <2>3, <2>4
<1>4. QED
  BY <1>2, <1>3 DEF Apart

\* The stored stamp is the last one published, and a copy that is ahead of it has seen
\* a later reboot, or the same one late.
Stamps ==
    /\ (published = {} /\ target.reboot = 0) \/ target.reboot \in published
    /\ \A v \in published : v <= target.reboot
    /\ Busy => t.reboot = target.reboot \/ Apart(target.reboot, t.reboot)
    /\ StampPerReboot

\* A copy that moves on has seen a reboot after the stamp it leaves; or a guest whose start,
\* as it is dated, lies beyond the tolerance.
LEMMA MovesOn ==
    ASSUME TypeOK, Clocks, Starts, HostUptime \/ GuestUptime
    PROVE  /\ t.reboot <= t'.reboot
           /\ t'.reboot = t.reboot \/ Apart(t.reboot, t'.reboot)
<1>1. /\ t.reboot \in Nat /\ now \in Nat /\ uptime \in Int /\ clock \in Nat /\ guest \in Nat
      /\ \A e \in reboots : e \in Nat /\ 0 < e
  BY StatusFields, SyncAssumption DEF TypeOK, Clocks, Start
<1>2. CASE HostUptime
  <2>1. \/ t'.reboot = t.reboot
        \/ t'.reboot \in reboots /\ t.reboot < t'.reboot
    <3>1. CASE t'.reboot # t.reboot
      <4>1. /\ 0 < uptime /\ 2 * uptime <= 3 * SyncInterval /\ t'.reboot = now - uptime
            /\ t.reboot = 0 \/ t.reboot + Tolerance < t'.reboot
        BY <1>2, <3>1, HostStamp
      <4>2. t'.reboot \in reboots
        BY <1>2, <4>1, HostDated
      <4>3. t.reboot < t'.reboot
        BY <1>1, <4>1, <4>2, SyncAssumption
      <4>4. QED
        BY <4>2, <4>3
    <3>2. QED
      BY <3>1
  <2>2. QED
    BY <1>1, <2>1 DEF Apart, Between
<1>3. CASE GuestUptime
  <2>1. CASE t'.reboot # t.reboot
    <3>1. PICK m \in now..clock :
             /\ guest < m /\ 2 * (m - guest) <= 3 * SyncInterval
             /\ t'.reboot = clock - (m - guest)
             /\ t.reboot = 0 \/ t.reboot + Tolerance < t'.reboot
      BY <1>3, <2>1, GuestStamp
    <3> DEFINE e == guest - BootDelay
    <3>2. /\ e \in reboots
          /\ guest <= t'.reboot /\ t'.reboot <= guest + PollDelay
      BY <1>3, <3>1, GuestDated
    <3>0. /\ t'.reboot \in Nat /\ guest \in Nat /\ BootDelay \in Nat /\ PollDelay \in Nat
          /\ Tolerance \in Nat /\ e \in Nat /\ 0 < e
      BY <1>1, <1>3, <3>2, GuestWrites, SyncAssumption
    <3>3. e \in Nat /\ 0 < e /\ e <= t'.reboot /\ t'.reboot <= e + BootDelay + PollDelay
      BY <3>0, <3>2
    <3> HIDE DEF e
    <3>4. t.reboot < t'.reboot
      BY <1>1, <3>0, <3>1, <3>3
    <3>5. CASE t.reboot < e
      BY <1>1, <3>0, <3>2, <3>3, <3>4, <3>5 DEF Apart, Between
    <3>6. CASE e <= t.reboot
      <4>1. t.reboot + Tolerance < t'.reboot
        BY <1>1, <3>0, <3>1, <3>3, <3>6
      <4>2. QED
        BY <1>1, <3>0, <3>2, <3>3, <3>4, <3>6, <4>1 DEF Apart, Restamped
    <3>7. QED
      BY <1>1, <3>3, <3>5, <3>6
  <2>2. QED
    BY <1>1, <2>1
<1>4. QED
  BY <1>2, <1>3

LEMMA PublishOne ==
    ASSUME TypeOK, Advance, Stamps, PatchTarget
    PROVE  Stamps'
<1>1. /\ target'.reboot = t.reboot /\ UNCHANGED <<reboots>> /\ ~Busy'
      /\ published' = IF t.reboot = 0 THEN published ELSE published \cup {t.reboot}
      /\ target.reboot \in Nat /\ t.reboot \in Nat /\ target.reboot <= t.reboot
      /\ \A v \in published : v \in Nat /\ v # 0 /\ v <= target.reboot
      /\ t.reboot = target.reboot \/ Apart(target.reboot, t.reboot)
      /\ target.reboot \in published \/ published = {}
  BY PatchWrites, StatusFields DEF PatchTarget, Synced, Return, outside, Busy, Advance, Stamps, TypeOK
<1>2. CASE t.reboot = target.reboot
  <2>1. UNCHANGED published
    BY <1>1, <1>2 DEF Stamps
  <2>2. QED
    BY <1>1, <1>2, <2>1 DEF Stamps, StampPerReboot, Between, Restamped
<1>3. CASE t.reboot # target.reboot
  <2>1. t.reboot # 0 /\ published' = published \cup {t.reboot}
    BY <1>1, <1>3
  <2>2. ASSUME NEW v \in published', NEW w \in published', v < w
        PROVE  Apart(v, w)
    <3>1. CASE w \in published
      <4>1. v # t.reboot
        BY <1>1, <2>2, <3>1
      <4>2. QED
        BY <2>1, <2>2, <3>1, <4>1 DEF Stamps, StampPerReboot, Apart
    <3>2. CASE w = t.reboot
      <4>1. v \in published
        BY <1>1, <2>1, <2>2, <3>2
      <4>2. Apart(target.reboot, t.reboot) /\ target.reboot < t.reboot
        BY <1>1, <1>3
      <4>3. CASE v = target.reboot
        BY <3>2, <4>2, <4>3
      <4>4. CASE v < target.reboot
        <5>1. Apart(v, target.reboot)
          BY <1>1, <4>1, <4>4 DEF Stamps, StampPerReboot, Apart
        <5>2. QED
          BY <1>1, <3>2, <4>1, <4>2, <4>4, <5>1, ApartOn
      <4>5. QED
        BY <1>1, <4>1, <4>3, <4>4
    <3>3. QED
      BY <2>1, <2>2, <3>1, <3>2
  <2>3. StampPerReboot'
    BY <1>1, <2>2 DEF StampPerReboot, Apart, Between, Restamped
  <2>4. QED
    BY <1>1, <2>1, <2>3 DEF Stamps
<1>4. QED
  BY <1>1, <1>2, <1>3

LEMMA StampsStep ==
    ASSUME TypeOK, Clocks, Starts, Advance, Stamps, [Next]_vars
    PROVE  Stamps'
<1>1. CASE Fetch
  BY <1>1, Observed DEF Stamps, StampPerReboot, Between, Restamped
<1>2. CASE HostUptime \/ GuestUptime
  <2>1. UNCHANGED <<reboots, published, target>> /\ Busy
    BY <1>2, Observed DEF Fetch, HostUptime, GuestUptime, Busy
  <2>2. target.reboot \in Nat /\ t.reboot \in Nat /\ t'.reboot \in Nat /\ target.reboot <= t.reboot
    BY <1>2, <2>1, StatusFields, HostWrites, GuestWrites DEF Advance
  <2>3. t.reboot <= t'.reboot /\ (t'.reboot = t.reboot \/ Apart(t.reboot, t'.reboot))
    BY <1>2, MovesOn
  <2>4. t.reboot = target.reboot \/ Apart(target.reboot, t.reboot)
    BY <2>1 DEF Stamps
  <2>5. t'.reboot = target.reboot \/ Apart(target.reboot, t'.reboot)
    <3>1. CASE t'.reboot = t.reboot \/ t.reboot = target.reboot
      BY <2>3, <2>4, <3>1
    <3>2. CASE t'.reboot # t.reboot /\ t.reboot # target.reboot
      BY <2>2, <2>3, <2>4, <3>2, ApartOn
    <3>3. QED
      BY <3>1, <3>2
  <2>6. QED
    BY <2>1, <2>5 DEF Stamps, StampPerReboot, Apart, Between, Restamped
<1>3. CASE PatchTarget
  BY <1>3, PublishOne
<1>4. CASE ~Fetch /\ ~HostUptime /\ ~GuestUptime /\ ~PatchTarget
  <2>1. /\ UNCHANGED published /\ target'.reboot = target.reboot
        /\ reboots \subseteq reboots' /\ (Busy' => Busy /\ UNCHANGED t)
    BY <1>4, Aside DEF Busy
  <2>2. StampPerReboot'
    BY <2>1 DEF Stamps, StampPerReboot, Between, Restamped
  <2>3. QED
    BY <2>1, <2>2 DEF Stamps, Apart, Between, Restamped
<1>5. QED
  BY <1>1, <1>2, <1>3, <1>4

LEMMA StartStamps ==
    Init => Advance /\ Starts /\ Stamps
BY SyncAssumption DEF Init, NoCopy, Advance, Starts, Stamps, StampPerReboot, Start, Busy

\* Between two values of lastRebootTime the VM rebooted (nextRebootTime), however many syncs
\* see one reboot in the machine's uptime or the guest's; but for a guest whose start is
\* dated beyond the tolerance, and then every further value of that reboot is more than the
\* tolerance above the last, and none is later than the guest's delay and the poll's.
THEOREM StampsTell == Spec => []StampPerReboot
<1>1. Spec => [](TypeOK /\ Clocks /\ Advance /\ Starts /\ Stamps)
  BY StartType, StartStamps, TypeStep, AdvanceStep, StartsStep, StampsStep, PTL DEF Spec
<1>2. Stamps => StampPerReboot
  BY DEF Stamps
<1>3. QED
  BY <1>1, <1>2, PTL

\* So a guest that starts and answers within the tolerance, as SPEC section 7.3 takes it to,
\* gives one value of lastRebootTime for every reboot.
COROLLARY PromptStamps ==
    ASSUME BootDelay + PollDelay <= Tolerance
    PROVE  Spec => [](\A v, w \in published : v < w => Between(v, w))
<1>1. ASSUME TypeOK, NEW v \in published, NEW w \in published, Restamped(v, w)
      PROVE  FALSE
  <2>1. PICK e \in reboots : e <= v /\ w <= e + BootDelay + PollDelay
    BY <1>1 DEF Restamped
  <2>2. {v, w, e} \subseteq Nat /\ v + Tolerance < w
    BY <1>1 DEF Restamped, TypeOK
  <2>3. QED
    BY <2>1, <2>2, SyncAssumption
<1>2. TypeOK /\ StampPerReboot => \A v, w \in published : v < w => Between(v, w)
  BY <1>1 DEF StampPerReboot
<1>3. QED
  BY <1>2, TypeCorrect, StampsTell, PTL

(***************************************************************************)
(* The node of a destroyed VM.                                             *)
(***************************************************************************)

\* The time by which the node is gone: that of one sync, and of one more for every fault.
By == downAt + (1 + faults) * Round

\* A VM that is gone stays gone.  A sync that did not find it clears the node, and one
\* that still saw it began before it went; while the node is known, the next sync or the
\* one in progress is in time.
Cleared ==
    /\ Busy /\ uptime < 0 => vm = "gone" /\ (pc = "host" \/ ~t.node)
    /\ vm = "gone" /\ Busy /\ 0 <= uptime => now <= downAt
    /\ vm = "gone" /\ target.node =>
          IF Busy THEN clock <= By
          ELSE wake + Slack <= By /\ lastSync + SyncInterval + Slack <= By

LEMMA Rounds ==
    ASSUME NEW f \in Nat, NEW d \in Nat
    PROVE  /\ (1 + f) * d \in Nat
           /\ d <= (1 + f) * d
           /\ (1 + (f + 1)) * d = (1 + f) * d + d
<1>1. f * d \in Nat
  OBVIOUS
<1>2. (1 + f) * d = d + f * d /\ (1 + (f + 1)) * d = d + d + f * d
  OBVIOUS
<1>3. QED
  BY <1>1, <1>2

LEMMA RoundsFrom ==
    ASSUME NEW f \in Nat, NEW d \in Nat, NEW from \in Nat
    PROVE  from + (1 + f) * d \in Nat /\ from + d <= from + (1 + f) * d
<1> DEFINE all == (1 + f) * d
<1>1. all \in Nat /\ d <= all
  BY Rounds
<1> HIDE DEF all
<1>2. from + all \in Nat /\ from + d <= from + all
  BY <1>1
<1>3. QED
  BY <1>2 DEF all

\* The time left for the node, with one fault more or none.
LEMMA Deadline ==
    ASSUME TypeOK
    PROVE  /\ Round \in Nat /\ By \in Nat /\ downAt + Round <= By
           /\ TypeOK' => By' \in Nat /\ downAt' + Round <= By'
           /\ downAt' = downAt /\ faults' = faults => By' = By
           /\ downAt' = downAt /\ faults' = faults + 1 => By' = By + Round
<1>1. Round \in Nat /\ faults \in Nat /\ downAt \in Nat
  BY SyncAssumption DEF Round, TypeOK
<1>2. /\ (1 + faults) * Round \in Nat
      /\ Round <= (1 + faults) * Round
      /\ (1 + (faults + 1)) * Round = (1 + faults) * Round + Round
  BY <1>1, Rounds
<1>3. Round' = Round
  BY DEF Round
<1>4. ASSUME TypeOK'
      PROVE  By' \in Nat /\ downAt' + Round <= By'
  <2>1. faults' \in Nat /\ downAt' \in Nat
    BY <1>4 DEF TypeOK
  <2>2. /\ downAt' + (1 + faults') * Round \in Nat
        /\ downAt' + Round <= downAt' + (1 + faults') * Round
    BY <1>1, <2>1, RoundsFrom
  <2>3. By' = downAt' + (1 + faults') * Round
    BY <1>3 DEF By
  <2>4. QED
    BY <2>2, <2>3
<1> HIDE DEF Round
<1>5. QED
  BY <1>1, <1>2, <1>3, <1>4 DEF By

LEMMA ClearedStep ==
    ASSUME TypeOK, Clocks, Cleared, [Next]_vars
    PROVE  Cleared'
<1>1. /\ {clock, downAt, lastSync, wake, now, By, Round} \subseteq Nat /\ uptime \in Int
      /\ Round = SyncInterval + Slack + PollDelay
      /\ {SyncInterval, Slack, PollDelay} \subseteq Nat
      /\ downAt + Round <= By
  BY Deadline, SyncAssumption DEF TypeOK, Round
<1>2. /\ downAt' = downAt /\ faults' = faults => By' = By
      /\ downAt' = downAt /\ faults' = faults + 1 => By' = By + Round
  BY Deadline
<1>3. CASE NotYet
  BY <1>1, <1>2, <1>3 DEF NotYet, Cleared, Clocks, Busy, outside, local
<1>4. CASE Fetch
  <2>1. /\ UNCHANGED <<vm, target, downAt, faults>> /\ Busy' /\ ~Busy /\ pc' = "host"
        /\ clock' = clock
    BY <1>4 DEF Fetch, outside, Busy
  <2>2. IF vm = "gone" THEN uptime' = -1 ELSE 0 <= uptime'
    BY <1>1, <1>4, FetchUptime DEF TypeOK, Clocks
  <2>3. vm = "gone" /\ target.node => clock <= By
    BY <1>1, <2>1 DEF Cleared, Clocks
  <2>4. uptime' < 0 => vm = "gone"
    BY <1>1, <1>4, <2>2, FetchUptime
  <2>5. By' = By
    BY <1>2, <2>1
  <2>6. (vm = "gone") => ~(0 <= uptime')
    BY <2>2
  <2>7. QED
    BY <2>1, <2>3, <2>4, <2>5, <2>6 DEF Cleared
<1>5. CASE FetchFails
  <2>1. /\ target'.node = target.node
        /\ UNCHANGED <<vm, downAt, lastSync>> /\ ~Busy /\ ~Busy' /\ faults' = faults + 1
        /\ wake' = clock + SyncInterval
    BY <1>5, StopWrites DEF FetchFails, Fault, outside, local, Busy
  <2>2. QED
    BY <1>1, <1>2, <2>1 DEF Cleared, Clocks
<1>6. CASE HostUptime
  <2>1. /\ UNCHANGED <<vm, target, downAt, clock, now, uptime, faults>> /\ Busy /\ Busy'
    BY <1>6 DEF HostUptime, outside, Busy
  <2>2. uptime < 0 => ~t'.node
    BY <1>1, <1>6, HostWrites
  <2>3. QED
    BY <1>1, <1>2, <2>1, <2>2 DEF Cleared
<1>7. CASE GuestUptime \/ GuestUptimeFails
  <2>1. /\ UNCHANGED <<vm, target, downAt, clock, now, uptime>> /\ Busy /\ Busy' /\ pc = "guest"
        /\ faults' = faults \/ faults' = faults + 1
    BY <1>7 DEF GuestUptime, GuestUptimeFails, Fault, outside, Busy
  <2>2. 0 <= uptime
    BY <2>1 DEF Clocks
  <2>3. By <= By'
    BY <1>1, <1>2, <2>1
  <2>4. clock <= By => clock <= By'
    BY <1>1, <1>2, <2>1
  <2>5. QED
    BY <1>1, <2>1, <2>2, <2>4 DEF Cleared
<1>8. CASE PatchTarget
  <2>1. /\ UNCHANGED <<vm, downAt, clock>> /\ Busy /\ ~Busy' /\ pc = "patch"
        /\ target'.node = t.node
        /\ \/ faults' = faults /\ lastSync' = now /\ wake' = clock + SyncInterval
           \/ faults' = faults + 1 /\ lastSync' = lastSync /\ wake' = clock
    BY <1>8, PatchWrites DEF PatchTarget, Synced, Return, Fault, outside, Busy
  <2>2. ASSUME vm = "gone", t.node
        PROVE  now <= downAt
    BY <1>1, <2>1, <2>2 DEF Cleared
  <2>3. ASSUME vm = "gone", t.node
        PROVE  wake' + Slack <= By' /\ lastSync' + SyncInterval + Slack <= By'
    <3>1. now <= downAt /\ clock <= downAt + PollDelay /\ lastSync + SyncInterval <= now
      BY <1>1, <2>1, <2>2, <2>3 DEF Clocks
    <3>2. QED
      BY <1>1, <1>2, <2>1, <3>1
  <2>4. QED
    BY <2>1, <2>3 DEF Cleared
<1>9. CASE PatchTargetFails
  <2>1. /\ UNCHANGED <<vm, target, downAt, clock>> /\ Busy /\ ~Busy' /\ faults' = faults + 1
        /\ lastSync' = now /\ wake' = clock + SyncInterval
    BY <1>9 DEF PatchTargetFails, Synced, Return, Fault, outside, Busy
  <2>2. QED
    BY <1>1, <1>2, <2>1 DEF Cleared, Clocks
<1>10. CASE TargetPoll
  <2>1. target'.node = target.node
    BY <1>10, StopWrites
  <2>2. QED
    BY <1>2, <1>10, <2>1 DEF TargetPoll, Cleared, Busy, outside, local
<1>11. CASE OperatorRestart
  BY <1>1, <1>2, <1>11 DEF OperatorRestart, Return, Fault, Cleared, Clocks, Busy, outside
<1>12. CASE Reboot
  BY <1>12 DEF Reboot, Cleared, Busy, local
<1>13. CASE StopOrDestroy
  <2>1. /\ vm' \in {"stopped", "gone"} /\ downAt' = (IF vm' = "gone" THEN clock ELSE downAt)
        /\ faults' = faults /\ UNCHANGED <<clock, target, lastSync, wake, pc, t, now, uptime>>
    BY <1>13 DEF StopOrDestroy, local
  <2>2. CASE vm' = "stopped"
    BY <1>13, <2>1, <2>2 DEF StopOrDestroy, Cleared, Busy
  <2>3. SUFFICES ASSUME vm' = "gone" PROVE Cleared'
    BY <2>1, <2>2
  <2>4. clock + Round <= By'
    BY <2>1, <2>3, Deadline, TypeStep
  <2>5. By' \in Nat
    BY Deadline, TypeStep
  <2>6. /\ lastSync <= clock /\ wake <= clock + SyncInterval /\ now <= clock
        /\ pc = "host" => clock = now
    BY DEF Clocks
  <2>7. clock <= By' /\ wake + Slack <= By' /\ lastSync + SyncInterval + Slack <= By'
    BY <1>1, <2>4, <2>5, <2>6
  <2>8. vm # "gone" /\ (Busy' <=> Busy)
    BY <1>13, <2>1 DEF StopOrDestroy, Busy
  <2>9. QED
    BY <1>1, <2>1, <2>6, <2>7, <2>8 DEF Cleared
<1>14. CASE Tick
  BY <1>1, <1>2, <1>14 DEF Tick, Cleared, Clocks, Busy, outside, local
<1>15. CASE UNCHANGED vars
  BY <1>2, <1>15 DEF vars, Cleared, Busy, outside, local
<1>16. QED
  BY <1>3, <1>4, <1>5, <1>6, <1>7, <1>8, <1>9, <1>10, <1>11, <1>12, <1>13, <1>14, <1>15
     DEF Next, Sync

LEMMA StartCleared ==
    Init => Cleared
BY DEF Init, Cleared, Busy

\* A destroyed VM loses its node (desiredProxmoxNode) within the time of one sync, and each
\* fault costs at most one more: a fetch, a patch or the cluster's patch that fails, and a
\* restart at any point of the sync.
THEOREM NodeIsCleared == Spec => []NodeCleared
<1>1. Spec => [](TypeOK /\ Clocks /\ Cleared)
  BY StartType, StartCleared, TypeStep, ClearedStep, PTL DEF Spec
<1>2. TypeOK /\ Clocks /\ Cleared => NodeCleared
  <2> SUFFICES ASSUME TypeOK, Clocks, Cleared, vm = "gone", target.node
               PROVE  ~(clock > downAt + (1 + faults) * (SyncInterval + Slack + PollDelay))
    BY DEF NodeCleared, Late
  <2>1. By = downAt + (1 + faults) * (SyncInterval + Slack + PollDelay)
    BY DEF By, Round
  <2>2. clock \in Nat /\ wake \in Nat /\ By \in Nat /\ Slack \in Nat
    BY Deadline, SyncAssumption DEF TypeOK
  <2>3. clock <= By
    BY <2>2 DEF Cleared, Clocks
  <2>4. ~(clock > By)
    BY <2>2, <2>3
  <2>5. QED
    BY <2>1, <2>4
<1>3. QED
  BY <1>1, <1>2, PTL

(***************************************************************************)
(* No reboot is missed, where the guest is asked, starts within one        *)
(* interval, and syncs and polls are on time by a third of the window.     *)
(***************************************************************************)

Punctual == CheckGuestUptime /\ BootDelay < SyncInterval /\ 2 * (Slack + 2 * PollDelay) <= SyncInterval

Known(e) == \E v \in published : v >= e - Tolerance

\* Without faults the syncs keep their interval.  As long as the last reboot is not
\* published, no sync has begun after the guest's start and ended; one that has, and has
\* asked the guest, holds the reboot.
Seen ==
    faults = 0 =>
        /\ IF Busy THEN now <= lastSync + Round ELSE wake <= lastSync + PollDelay + SyncInterval
        /\ vm = "running" /\ reboots # {} /\ ~Known(guest - BootDelay) =>
              /\ lastSync <= guest
              /\ pc = "patch" /\ guest < now =>
                    t.reboot # 0 /\ t.reboot >= guest - BootDelay - Tolerance

\* A sync that asks a guest which was up when it began, no later than two intervals after
\* the last sync that was too early, reads an uptime within the window.
LEMMA GuestSeen ==
    ASSUME Punctual, TypeOK, Clocks, Starts, GuestUptime, reboots # {},
           guest < now, now <= lastSync + Round, lastSync <= guest
    PROVE  t'.reboot # 0 /\ t'.reboot >= guest - BootDelay - Tolerance
<1>1. PICK m \in now..clock :
         t'.reboot = IF Recent(m - guest) THEN nextRebootTime(clock, m - guest, t.reboot)
                                          ELSE t.reboot
  BY GuestWrites
<1>2. /\ {m, clock, guest, now, lastSync, t.reboot} \subseteq Nat
      /\ {SyncInterval, Slack, PollDelay, BootDelay, Tolerance} \subseteq Nat
      /\ now <= m /\ m <= clock /\ clock <= now + PollDelay
  BY <1>1, StatusFields, SyncAssumption DEF TypeOK, Clocks, Busy, GuestUptime
<1>3. 0 < m - guest /\ 2 * (m - guest) <= 3 * SyncInterval
  BY <1>2 DEF Punctual, Round
<1>4. 0 < guest
  <2>1. PICK e \in reboots : TRUE
    OBVIOUS
  <2>2. e \in Nat /\ Start <= e /\ e <= guest - BootDelay
    BY <2>1 DEF TypeOK, Clocks, Starts
  <2>3. QED
    BY <1>2, <2>2, SyncAssumption DEF Start
<1>5. t'.reboot = nextRebootTime(clock, m - guest, t.reboot)
  BY <1>1, <1>3 DEF Recent, Threshold
<1>6. guest <= clock - (m - guest)
  BY <1>2
<1>7. QED
  BY <1>2, <1>4, <1>5, <1>6 DEF nextRebootTime

LEMMA SeenStep ==
    ASSUME Punctual, TypeOK, Clocks, Starts, Cleared, Seen, [Next]_vars
    PROVE  Seen'
<1>1. /\ {clock, guest, now, lastSync, wake, faults, t.reboot} \subseteq Nat /\ uptime \in Int
      /\ {SyncInterval, Slack, PollDelay, BootDelay, Tolerance, Round} \subseteq Nat
      /\ Round = SyncInterval + Slack + PollDelay /\ Round' = Round
      /\ CheckGuestUptime /\ published \subseteq Nat /\ reboots \subseteq Nat
  BY StatusFields, SyncAssumption DEF TypeOK, Round, Punctual
<1>2. SUFFICES ASSUME faults' = 0
               PROVE  /\ IF Busy' THEN now' <= lastSync' + Round
                         ELSE wake' <= lastSync' + PollDelay + SyncInterval
                      /\ vm' = "running" /\ reboots' # {} /\ ~Known(guest - BootDelay)' =>
                            /\ lastSync' <= guest'
                            /\ pc' = "patch" /\ guest' < now' =>
                                  t'.reboot # 0 /\ t'.reboot >= guest' - BootDelay - Tolerance
  BY <1>1 DEF Seen
<1>3. faults = 0 /\ UNCHANGED faults
  BY <1>1, <1>2 DEF Next, Sync, NotYet, Fetch, FetchFails, HostUptime, GuestUptime, GuestUptimeFails,
     PatchTarget, PatchTargetFails, TargetPoll, OperatorRestart, Reboot, StopOrDestroy, Tick,
     Fault, outside, local, vars
<1>4. /\ IF Busy THEN now <= lastSync + Round ELSE wake <= lastSync + PollDelay + SyncInterval
      /\ vm = "running" /\ reboots # {} /\ ~Known(guest - BootDelay) =>
            /\ lastSync <= guest
            /\ pc = "patch" /\ guest < now =>
                  t.reboot # 0 /\ t.reboot >= guest - BootDelay - Tolerance
  BY <1>3 DEF Seen
<1>5. published' = published /\ guest' = guest => Known(guest - BootDelay)' = Known(guest - BootDelay)
  BY DEF Known
<1>6. CASE NotYet
  BY <1>1, <1>4, <1>5, <1>6 DEF NotYet, Busy, outside, local
<1>7. CASE Fetch
  <2>1. UNCHANGED <<clock, vm, guest, reboots, published, lastSync>> /\ now' = clock /\ pc' = "host" /\ pc = "idle"
    BY <1>7 DEF Fetch, outside
  <2>2. now' <= lastSync + Round
    BY <1>1, <1>4, <2>1 DEF Clocks, Busy
  <2>3. QED
    BY <1>4, <1>5, <2>1, <2>2 DEF Busy
<1>8. CASE HostUptime
  <2>1. /\ UNCHANGED <<clock, vm, guest, reboots, published, lastSync, now>> /\ Busy /\ Busy'
        /\ 0 <= uptime => pc' = "guest"
    BY <1>1, <1>8 DEF HostUptime, outside, Busy
  <2>2. vm = "running" => 0 <= uptime
    BY <1>1, <2>1 DEF Cleared
  <2>3. QED
    BY <1>4, <1>5, <2>1, <2>2
<1>9. CASE GuestUptime
  <2>1. /\ UNCHANGED <<clock, vm, guest, reboots, published, lastSync, now>> /\ Busy /\ Busy'
    BY <1>9 DEF GuestUptime, outside, Busy
  <2>2. QED
    BY <1>4, <1>5, <1>9, <2>1, GuestSeen
<1>10. CASE GuestUptimeFails
  <2>1. /\ UNCHANGED <<clock, vm, guest, reboots, published, lastSync, now>> /\ Busy /\ Busy'
    BY <1>10 DEF GuestUptimeFails, outside, Busy
  <2>2. vm = "running" => ~(guest < now)
    BY <1>1, <1>3, <1>10 DEF GuestUptimeFails, Fault, Clocks
  <2>3. QED
    BY <1>4, <1>5, <2>1, <2>2
<1>11. CASE PatchTarget
  <2>1. /\ UNCHANGED <<vm, guest, reboots, clock>> /\ pc = "patch" /\ Busy /\ ~Busy' /\ pc' = "idle"
        /\ lastSync' = now /\ wake' = clock + SyncInterval
        /\ t.reboot # 0 => t.reboot \in published'
        /\ published \subseteq published'
    BY <1>1, <1>3, <1>11 DEF PatchTarget, Synced, Return, Fault, outside, Busy
  <2>2. wake' <= lastSync' + PollDelay + SyncInterval
    BY <1>1, <2>1 DEF Clocks
  <2>3. Known(guest - BootDelay) => Known(guest - BootDelay)'
    BY <2>1 DEF Known
  <2>4. ASSUME vm = "running", reboots # {}, ~Known(guest - BootDelay)'
        PROVE  now <= guest
    <3>1. CASE guest < now
      <4>1. t.reboot # 0 /\ t.reboot >= guest - BootDelay - Tolerance
        BY <1>4, <2>1, <2>3, <2>4, <3>1
      <4>2. Known(guest - BootDelay)'
        BY <2>1, <4>1 DEF Known
      <4>3. QED
        BY <2>4, <4>2
    <3>2. QED
      BY <1>1, <3>1
  <2>5. QED
    BY <2>1, <2>2, <2>4
<1>12. CASE TargetPoll \/ StopOrDestroy \/ Tick \/ UNCHANGED vars
  <2>1. /\ UNCHANGED <<guest, reboots, published, lastSync, wake, pc, t, now>> /\ (Busy' <=> Busy)
        /\ vm' = "running" => vm = "running"
    BY <1>12 DEF TargetPoll, StopOrDestroy, Tick, vars, outside, local, Busy
  <2>2. QED
    BY <1>4, <1>5, <2>1
<1>13. CASE Reboot
  <2>1. /\ UNCHANGED <<clock, lastSync, wake, pc, now>> /\ guest' = clock + BootDelay /\ (Busy' <=> Busy)
    BY <1>13 DEF Reboot, local, Busy
  <2>2. lastSync' <= guest' /\ ~(guest' < now')
    BY <1>1, <2>1 DEF Clocks
  <2>3. QED
    BY <1>4, <2>1, <2>2
<1>14. CASE FetchFails \/ PatchTargetFails \/ OperatorRestart
  BY <1>1, <1>3, <1>14 DEF FetchFails, PatchTargetFails, OperatorRestart, Fault
<1>15. QED
  BY <1>6, <1>7, <1>8, <1>9, <1>10, <1>11, <1>12, <1>13, <1>14 DEF Next, Sync

LEMMA StartSeen ==
    Init => Seen
BY SyncAssumption DEF Init, Seen, Busy, Start

\* A reboot of a VM that stays up is published within the time of two syncs, if none of them
\* fails (the 1.5 x syncInterval of onChange): the first may come before the guest is up, and
\* the second still finds an uptime that dates the reboot.
THEOREM RebootIsSeen ==
    ASSUME Punctual
    PROVE  Spec => []RebootSeen
<1>1. Spec => [](TypeOK /\ Clocks /\ Starts /\ Cleared /\ Seen)
  BY StartType, StartStamps, StartCleared, StartSeen, TypeStep, StartsStep, ClearedStep, SeenStep, PTL
     DEF Spec
<1>2. TypeOK /\ Clocks /\ Starts /\ Seen => RebootSeen
  <2> SUFFICES ASSUME TypeOK, Clocks, Starts, Seen, NEW e \in reboots, faults = 0, vm = "running",
                      \A f \in reboots : f <= e, ~Known(e)
               PROVE  ~Late(e, 2)
    BY DEF RebootSeen, Known
  <2>1. /\ {clock, guest, now, lastSync, wake, e} \subseteq Nat
        /\ {SyncInterval, Slack, PollDelay, BootDelay} \subseteq Nat
    BY SyncAssumption DEF TypeOK
  <2>2. 0 < e /\ e <= guest - BootDelay
    BY <2>1, SyncAssumption DEF Clocks, Starts, Start
  <2>3. e = guest - BootDelay
    BY <2>1, <2>2 DEF Starts
  <2>4. lastSync <= e + BootDelay
    BY <2>1, <2>3 DEF Seen
  <2>5. clock <= e + 2 * (SyncInterval + Slack + PollDelay)
    <3>1. CASE Busy
      <4>1. now <= lastSync + Round /\ clock <= now + PollDelay
        BY <3>1 DEF Seen, Clocks
      <4>2. QED
        BY <2>1, <2>4, <4>1 DEF Round, Punctual
    <3>2. CASE ~Busy
      <4>1. wake <= lastSync + PollDelay + SyncInterval /\ clock <= wake + Slack
        BY <3>2 DEF Seen, Clocks
      <4>2. QED
        BY <2>1, <2>4, <4>1 DEF Punctual
    <3>3. QED
      BY <3>1, <3>2
  <2>6. Late(e, 2) <=> clock > e + 2 * (SyncInterval + Slack + PollDelay)
    BY DEF Late
  <2>7. QED
    BY <2>1, <2>5, <2>6
<1>3. QED
  BY <1>1, <1>2, PTL

================================================================================
