------------------------- MODULE VRouterConfig_lag --------------------------
(***************************************************************************)
(* Proofs about VRouterConfig for an informer cache that is any number of  *)
(* versions behind.  A status patch is then computed from an old copy and  *)
(* merged into what the API server holds by now.  It still never lands on  *)
(* a later incarnation; and unless an older operator left an exec without  *)
(* execStartedTime, Applied=True is only shown for a generation whose      *)
(* script succeeded (or whose handle was given out twice), a handle was    *)
(* given to an exec of the generation observed, and no generation once     *)
(* dispatched is forgotten.                                                *)
(***************************************************************************)
EXTENDS VRouterConfig_proofs

----------------------------------------------------------------------------
(* How the stream of versions moves *)

\* A version of a step's stream is the object as it is then, or one that was
\* there before, in the same order.
LEMMA StreamMoves ==
    ASSUME TypeOK, [Next]_vars
    PROVE  \E d \in {0, 1} : \A i \in DOMAIN stream' :
               \/ stream'[i] = Api' /\ i = Len(stream')
               \/ i + d \in DOMAIN stream /\ stream'[i] = stream[i + d]
<1>1. stream \in Seq(Versions) /\ Len(stream) \in Nat /\ Len(stream) > 0
      /\ DOMAIN stream = 1..Len(stream)
  BY BoundsAssumption DEF TypeOK
<1>2. CASE UNCHANGED stream
  BY <1>1, <1>2
<1>3. ASSUME NEW v \in Versions, Push(v)
      PROVE  \E d \in {0, 1} : \A i \in DOMAIN stream' :
               \/ stream'[i] = Api' /\ i = Len(stream')
               \/ i + d \in DOMAIN stream /\ stream'[i] = stream[i + d]
  <2>1. CASE v # Api /\ Len(stream) > MaxLag
    <3>1. stream' = Append(Tail(stream), v)
      BY <1>3, <2>1 DEF Push
    <3>2. Tail(stream) \in Seq(Versions) /\ Len(Tail(stream)) = Len(stream) - 1
          /\ \A i \in 1..(Len(stream) - 1) : Tail(stream)[i] = stream[i + 1]
      BY <1>1
    <3>3. Len(stream') = Len(stream) /\ DOMAIN stream' = 1..Len(stream)
          /\ stream'[Len(stream)] = v
          /\ \A i \in 1..(Len(stream) - 1) : stream'[i] = Tail(stream)[i]
      BY <1>1, <3>1, <3>2, AppendProperties
    <3>4. Api' = stream'[Len(stream)]
      BY <3>3 DEF Api
    <3>5. \A i \in DOMAIN stream' :
               \/ stream'[i] = Api' /\ i = Len(stream')
               \/ i + 1 \in DOMAIN stream /\ stream'[i] = stream[i + 1]
      BY <1>1, <3>2, <3>3, <3>4
    <3> QED
      BY <3>5
  <2>2. CASE v # Api /\ ~(Len(stream) > MaxLag)
    <3>1. stream' = Append(stream, v)
      BY <1>3, <2>2 DEF Push
    <3>2. Len(stream') = Len(stream) + 1 /\ DOMAIN stream' = 1..(Len(stream) + 1)
          /\ stream'[Len(stream) + 1] = v
          /\ \A i \in 1..Len(stream) : stream'[i] = stream[i]
      BY <1>1, <3>1, AppendProperties
    <3>3. Api' = stream'[Len(stream) + 1]
      BY <3>2 DEF Api
    <3>4. \A i \in DOMAIN stream' :
               \/ stream'[i] = Api' /\ i = Len(stream')
               \/ i + 0 \in DOMAIN stream /\ stream'[i] = stream[i + 0]
      BY <1>1, <3>2, <3>3
    <3> QED
      BY <3>4
  <2> QED
    BY <1>2, <1>3, <2>1, <2>2 DEF Push
<1>4. CASE Deliver
  <2>1. stream' = Tail(stream) /\ Len(stream) > 1
    BY <1>4 DEF Deliver
  <2>2. Len(stream') = Len(stream) - 1 /\ DOMAIN stream' = 1..(Len(stream) - 1)
        /\ \A i \in 1..(Len(stream) - 1) : stream'[i] = stream[i + 1]
    BY <1>1, <2>1
  <2>3. \A i \in DOMAIN stream' : i + 1 \in DOMAIN stream /\ stream'[i] = stream[i + 1]
    BY <1>1, <2>2
  <2> QED
    BY <2>3
<1>5. CASE OperatorRestart
  <2>1. stream' = <<Api>>
    BY <1>5 DEF OperatorRestart
  <2>2. Len(stream') = 1 /\ DOMAIN stream' = {1} /\ stream'[1] = Api' 
    BY <2>1 DEF Api
  <2> QED
    BY <2>2
<1> QED
  BY <1>2, <1>3, <1>4, <1>5, ApiMoves

----------------------------------------------------------------------------
(* Incarnations.  A cached version that a reconcile would apply is of the  *)
(* object that exists, since only this controller takes the finalizer off, *)
(* and only from a copy that is deleted and still the stored one.          *)

\* A version v may be followed by a version w.
Before(v, w) ==
    \/ v.uid < w.uid
    \/ v.uid = w.uid /\ (v.del => w.del) /\ (w.live => v.live)

Holds(v) == v.live /\ v.fin /\ ~v.del

InOrder == \A i, j \in DOMAIN stream : i <= j => Before(stream[i], stream[j])

Pinned == \A i \in DOMAIN stream :
              Holds(stream[i]) => stream[i].uid = Api.uid /\ Api.live /\ Api.fin

Deleting == pc = "onDelete" =>
                /\ snap.del
                /\ \A i \in DOMAIN stream :
                       \/ snap.uid < stream[i].uid
                       \/ snap.uid = stream[i].uid /\ stream[i].del

Adopting == pc = "addFinalizer" => snap.live /\ ~snap.del

Present == MidReconcile => snap.uid = Api.uid /\ Api.live /\ Api.fin

UidInv == InOrder /\ Pinned /\ Deleting /\ Adopting /\ Present

\* The first and the last version, and the types of all.
LEMMA Ends ==
    ASSUME TypeOK
    PROVE  /\ DOMAIN stream = 1..Len(stream) /\ Len(stream) \in Nat
           /\ 1 \in DOMAIN stream /\ Cache = stream[1]
           /\ Len(stream) \in DOMAIN stream /\ Api = stream[Len(stream)]
           /\ \A i \in DOMAIN stream : /\ stream[i] \in Versions /\ stream[i].uid \in Nat
                                       /\ stream[i].gen \in Nat /\ stream[i].st.obs \in Nat
                                       /\ stream[i].del \in BOOLEAN /\ stream[i].fin \in BOOLEAN
                                       /\ stream[i].live \in BOOLEAN
<1>1. stream \in Seq(Versions) /\ Len(stream) \in Nat /\ Len(stream) > 0
      /\ DOMAIN stream = 1..Len(stream)
  BY BoundsAssumption DEF TypeOK
<1>2. Head(stream) = stream[1]
  BY <1>1
<1>3. \A i \in DOMAIN stream : stream[i] \in Versions
  BY <1>1
<1>4. \A v \in Versions : /\ v.uid \in Nat /\ v.gen \in Nat /\ v.st.obs \in Nat
                          /\ v.del \in BOOLEAN /\ v.fin \in BOOLEAN /\ v.live \in BOOLEAN
  BY DEF Versions, Statuses
<1> QED
  BY <1>1, <1>2, <1>3, <1>4 DEF Cache, Api

\* Two versions of the next state in order: both are the object of the next state,
\* or the first, or both, were there before, in the same order.
LEMMA PairMoves ==
    ASSUME TypeOK, [Next]_vars, NEW i \in DOMAIN stream', NEW j \in DOMAIN stream', i <= j
    PROVE  \/ stream'[i] = Api' /\ stream'[j] = Api'
           \/ stream'[j] = Api' /\ \E k \in DOMAIN stream : stream'[i] = stream[k]
           \/ \E k, l \in DOMAIN stream :
                  k <= l /\ stream'[i] = stream[k] /\ stream'[j] = stream[l]
<1>1. TypeOK'
  BY TypeStep
<1>2. PICK d \in {0, 1} : \A n \in DOMAIN stream' :
               \/ stream'[n] = Api' /\ n = Len(stream')
               \/ n + d \in DOMAIN stream /\ stream'[n] = stream[n + d]
  BY StreamMoves
<1>3. /\ DOMAIN stream' = 1..Len(stream') /\ Len(stream') \in Nat
      /\ stream'[Len(stream')] = Api'
  BY <1>1, Ends DEF Api
<1>4. i \in Nat /\ j \in Nat /\ i <= Len(stream') /\ j <= Len(stream')
  BY <1>3
<1>5. CASE j = Len(stream')
  BY <1>2, <1>3, <1>5
<1>6. CASE j # Len(stream')
  <2>1. /\ j + d \in DOMAIN stream /\ stream'[j] = stream[j + d]
        /\ i + d \in DOMAIN stream /\ stream'[i] = stream[i + d]
    BY <1>2, <1>3, <1>4, <1>6
  <2>2. i + d <= j + d
    BY <1>4
  <2> QED
    BY <2>1, <2>2
<1> QED
  BY <1>5, <1>6

LEMMA OldOrNew ==
    ASSUME TypeOK, [Next]_vars, NEW i \in DOMAIN stream'
    PROVE  stream'[i] = Api' \/ \E j \in DOMAIN stream : stream'[i] = stream[j]
BY StreamMoves

LEMMA UidInit == Init => UidInv
<1> SUFFICES ASSUME Init PROVE UidInv
  OBVIOUS
<1>1. pc = "idle"
  BY DEF Init
<1>2. PICK v \in {NewCfg(1), LegacyCfg} : stream = <<v>>
  BY DEF Init
<1>3. DOMAIN stream = {1} /\ stream[1] = v /\ Api = v
  BY <1>2 DEF Api
<1>4. Before(v, v)
  BY DEF Before
<1> QED
  BY <1>1, <1>3, <1>4
     DEF UidInv, InOrder, Before, Pinned, Holds, Deleting, Adopting, Present, MidReconcile

LEMMA BeforeOrder ==
    ASSUME NEW u \in Versions, NEW v \in Versions, NEW w \in Versions
    PROVE  Before(u, u) /\ (Before(u, v) /\ Before(v, w) => Before(u, w))
BY DEF Before, Versions

\* What a write does to the incarnation.
LEMMA ApiForward ==
    ASSUME TypeOK, UidInv, [Next]_vars
    PROVE  /\ Api' \in Versions /\ Before(Api, Api')
           /\ Api'.uid = Api.uid \/ Recreates(Api')
           /\ \/ Api' = Api
              \/ Finalizes(Api') \/ Patches(Api') \/ Edits(Api') \/ Recreates(Api')
<1>1. Api \in Versions /\ Api.uid \in Nat
  BY InHand
<1>2. CASE Api' = Api
  BY <1>1, <1>2, BeforeOrder
<1>3. CASE Api' \in Versions /\ Finalizes(Api')
  BY <1>1, <1>3 DEF Finalizes, Before, UidInv, Adopting, Deleting, Versions
<1>4. CASE Api' \in Versions /\ (Patches(Api') \/ Edits(Api') \/ Recreates(Api'))
  BY <1>1, <1>4 DEF Patches, Edits, Recreates, Before
<1> QED
  BY <1>2, <1>3, <1>4, ApiMoves

LEMMA InOrderStep ==
    ASSUME TypeOK, UidInv, [Next]_vars
    PROVE  InOrder' /\ \A i \in DOMAIN stream : Before(stream[i], Api')
<1>1. \A i \in DOMAIN stream : Before(stream[i], Api')
  <2> TAKE i \in DOMAIN stream
  <2>1. Before(stream[i], Api)
    BY Ends DEF UidInv, InOrder
  <2> QED
    BY <2>1, Ends, ApiForward, InHand, BeforeOrder
<1>2. Before(Api', Api')
  BY ApiForward, BeforeOrder
<1>3. \A i, j \in DOMAIN stream : i <= j => Before(stream[i], stream[j])
  BY DEF UidInv, InOrder
<1>4. ASSUME NEW i \in DOMAIN stream', NEW j \in DOMAIN stream', i <= j
      PROVE  Before(stream'[i], stream'[j])
  BY <1>1, <1>2, <1>3, <1>4, PairMoves
<1> QED
  BY <1>1, <1>4 DEF InOrder

LEMMA PinnedStep == ASSUME TypeOK, UidInv, [Next]_vars PROVE Pinned'
<1> SUFFICES ASSUME NEW i \in DOMAIN stream', Holds(stream'[i])
             PROVE  stream'[i].uid = Api'.uid /\ Api'.live /\ Api'.fin
  BY DEF Pinned, Holds
<1>1. CASE stream'[i] = Api'
  BY <1>1 DEF Holds
<1>2. CASE \E j \in DOMAIN stream : stream'[i] = stream[j]
  <2>1. PICK j \in DOMAIN stream : stream'[i] = stream[j]
    BY <1>2
  <2>2. Holds(stream[j]) /\ stream[j].uid = Api.uid /\ Api.live /\ Api.fin
    BY <2>1 DEF UidInv, Pinned, Holds
  <2>3. CASE Finalizes(Api')
    <3>1. ~Api.del
      <4>1. CASE pc = "onDelete"
        <5>1. snap.uid < stream[j].uid \/ stream[j].del
          BY <4>1 DEF UidInv, Deleting
        <5>2. snap.uid = stream[j].uid /\ ~stream[j].del /\ snap.uid \in Nat
          BY <2>2, <2>3, InHand DEF Finalizes, Holds
        <5> QED
          BY <5>1, <5>2
      <4>2. CASE pc = "addFinalizer"
        BY <2>3, <4>2 DEF UidInv, Adopting, Finalizes
      <4> QED
        BY <2>3, <4>1, <4>2 DEF Finalizes
    <3> QED
      BY <2>1, <2>2, <2>3, <3>1 DEF Finalizes
  <2>4. CASE Api' = Api \/ Patches(Api') \/ Edits(Api') \/ Recreates(Api')
    BY <2>1, <2>2, <2>4 DEF Patches, Edits, Recreates
  <2> QED
    BY <2>3, <2>4, ApiForward
<1> QED
  BY <1>1, <1>2, OldOrNew

LEMMA DeletingStep == ASSUME TypeOK, UidInv, [Next]_vars PROVE Deleting' /\ Adopting'
<1>1. CASE UNCHANGED local
  <2>1. UNCHANGED <<pc, snap>>
    BY <1>1 DEF local
  <2>2. ASSUME pc = "onDelete", NEW i \in DOMAIN stream'
        PROVE  snap.uid < stream'[i].uid \/ (snap.uid = stream'[i].uid /\ stream'[i].del)
    <3>1. \A j \in DOMAIN stream :
             snap.uid < stream[j].uid \/ (snap.uid = stream[j].uid /\ stream[j].del)
      BY <2>2 DEF UidInv, Deleting
    <3>2. CASE stream'[i] = Api'
      <4>1. snap.uid < Api.uid \/ (snap.uid = Api.uid /\ Api.del)
        BY <3>1, Ends
      <4>2. Before(Api, Api') /\ Api' \in Versions /\ Api.uid \in Nat /\ snap.uid \in Nat
        BY ApiForward, InHand
      <4>3. Api'.uid \in Nat
        BY <4>2 DEF Versions
      <4> QED
        BY <3>2, <4>1, <4>2, <4>3 DEF Before
    <3> QED
      BY <3>1, <3>2, OldOrNew
  <2> QED
    BY <2>1, <2>2 DEF UidInv, Deleting, Adopting
<1>2. CASE Reads
  <2>1. CASE Cache.del
    <3>1. snap' = Cache /\ stream' = stream /\ pc' = "onDelete"
      BY <1>2, <2>1 DEF Reads, Branch
    <3>2. ASSUME NEW i \in DOMAIN stream
          PROVE  Cache.uid < stream[i].uid \/ (Cache.uid = stream[i].uid /\ stream[i].del)
      <4>1. Before(stream[1], stream[i])
        BY Ends DEF UidInv, InOrder
      <4> QED
        BY <2>1, <4>1, Ends DEF Before
    <3> QED
      BY <2>1, <3>1, <3>2 DEF Deleting, Adopting
  <2>2. CASE ~Cache.del
    BY <1>2, <2>2 DEF Reads, Branch, Deleting, Adopting
  <2> QED
    BY <2>1, <2>2
<1>3. CASE pc' = "idle" \/ Proceeds \/ Stamps
  BY <1>3 DEF Proceeds, Stamps, Deleting, Adopting
<1> QED
  BY <1>1, <1>2, <1>3, LocalMoves

LEMMA PresentStep == ASSUME TypeOK, UidInv, [Next]_vars PROVE Present'
<1> SUFFICES ASSUME MidReconcile' PROVE snap'.uid = Api'.uid /\ Api'.live /\ Api'.fin
  BY DEF Present
<1>1. CASE UNCHANGED local
  <2>1. MidReconcile /\ UNCHANGED <<pc, snap>>
    BY <1>1 DEF MidReconcile, local
  <2>2. snap.uid = Api.uid /\ Api.live /\ Api.fin
    BY <2>1 DEF UidInv, Present
  <2>3. ~Finalizes(Api')
    BY <2>1 DEF MidReconcile, Finalizes
  <2> QED
    BY <2>1, <2>2, <2>3, ApiForward DEF Patches, Edits, Recreates
<1>2. CASE Reads
  <2>1. Api' = Api
    BY <1>2 DEF Reads, Api
  <2>2. Holds(Cache)
    BY <1>2 DEF Reads, Branch, MidReconcile, Holds
  <2>3. Cache.uid = Api.uid /\ Api.live /\ Api.fin
    BY <2>2, Ends DEF UidInv, Pinned
  <2> QED
    BY <1>2, <2>1, <2>3 DEF Reads
<1>3. CASE Proceeds
  BY <1>3 DEF Proceeds, Api, UidInv, Present
<1>4. CASE Stamps
  <2>1. Api.live /\ Api.fin /\ pc = "patch"
    BY <1>4 DEF Stamps, UidInv, Present, MidReconcile
  <2>2. ~Finalizes(Api') /\ ~Edits(Api') /\ ~Recreates(Api')
    BY <1>4 DEF Stamps, Finalizes, Edits, Recreates, local
  <2> QED
    BY <1>4, <2>1, <2>2, ApiForward DEF Patches, Stamps
<1> QED
  BY <1>1, <1>2, <1>3, <1>4, LocalMoves DEF MidReconcile

LEMMA UidStep == TypeOK /\ UidInv /\ [Next]_vars => UidInv'
BY InOrderStep, PinnedStep, DeletingStep, PresentStep DEF UidInv

LEMMA UidAlways == Spec => [](TypeOK /\ UidInv)
<1>1. Init => TypeOK /\ UidInv
  BY TypeInit, UidInit
<1>2. TypeOK /\ UidInv /\ [Next]_vars => (TypeOK /\ UidInv)'
  BY TypeStep, UidStep
<1> QED
  BY <1>1, <1>2, PTL DEF Spec

\* However far the cache is behind, a status patch lands on the incarnation its
\* reconcile read, across deletions and creations anew.
THEOREM PatchesItsOwn == Spec => PatchSameIncarnation
<1>1. TypeOK /\ UidInv /\ [Next]_vars =>
          [(Api'.st # Api.st /\ Api'.uid = Api.uid) => snap.uid = Api.uid]_vars
  <2> SUFFICES ASSUME TypeOK, UidInv, [Next]_vars, Api'.st # Api.st, Api'.uid = Api.uid
               PROVE  snap.uid = Api.uid
    OBVIOUS
  <2>1. Api.uid \in Nat
    BY InHand
  <2>2. Patches(Api')
    BY <2>1, ApiForward DEF Finalizes, Edits, Recreates
  <2>3. pc = "patch"
    BY <2>2 DEF Patches, PatchStatus, PatchStatusAnswerLost
  <2> QED
    BY <2>3 DEF UidInv, Present, MidReconcile
<1> QED
  BY <1>1, UidAlways, PTL DEF Spec, PatchSameIncarnation

----------------------------------------------------------------------------
(* Statuses.  A stale copy of a status and the stored one are of the same  *)
(* life: a patch made from the copy either leaves the handle and the       *)
(* generation alone, or clears the handle, or records a new dispatch of a  *)
(* generation no older than any recorded.  The exec that an older operator *)
(* left without execStartedTime breaks this: its stamp returns the stored  *)
(* object, which may be ahead of the cache the next reconcile reads.       *)

NoLegacy == ~Legacy

\* In one incarnation generation and observedGeneration only grow, and what is
\* recorded as dispatched is no newer than what the cache can show.
Follows(v, w) == v.uid = w.uid => v.gen <= w.gen /\ v.st.obs <= w.st.obs

Growing == \A i, j \in DOMAIN stream : i <= j => Follows(stream[i], stream[j])

ObsCovered == \A i \in DOMAIN stream : stream[i].uid = Api.uid => Api.st.obs <= stream[i].gen

ReadCovered == MidReconcile =>
                   /\ snap.st.obs <= Api.st.obs /\ Api.st.obs <= snap.gen
                   /\ \A i \in DOMAIN stream : stream[i].uid = snap.uid => snap.gen <= stream[i].gen

\* What a status s of incarnation u promises about the execs q.
Sound(q, u, s) ==
    /\ s.applied.status = "True" =>
           \E p \in DOMAIN q : q[p].uid = u /\ q[p].gen = s.applied.gen /\ Vouches(q[p])
    /\ s.pid > 0 => s.pid \in DOMAIN q /\ q[s.pid].uid = u /\ q[s.pid].gen = s.obs
    /\ s.started = s.pid

\* What a patch from a copy s at generation g to a status n does to the handle.
Keeps(s, n) == n.pid = s.pid /\ n.obs = s.obs
Clears(s, n) == n.pid = 0 /\ s.pid > 0 /\ n.obs = s.obs
Records(s, n, g) == n.pid > 0 /\ s.pid = 0 /\ n.obs = g
Moves(s, n, g) == Keeps(s, n) \/ Clears(s, n) \/ Records(s, n, g)

AllSound == \A i \in DOMAIN stream : Sound(scripts, stream[i].uid, stream[i].st)

ReadSound == MidReconcile => Sound(scripts, snap.uid, snap.st)

SentSound == pc = "patch" => /\ Sound(scripts, snap.uid, next)
                             /\ Moves(snap.st, next, snap.gen)
                             /\ ret # "checkReady"

StatusInv == Growing /\ ObsCovered /\ ReadCovered /\ AllSound /\ ReadSound /\ SentSound

LagInv == UidInv /\ StatusInv

LEMMA SoundGrows == \A q, r, u, s : Sound(q, u, s) /\ Grows(q, r) => Sound(r, u, s)
BY DEF Sound, Grows

LEMMA NewSound == \A q, u : Sound(q, u, NewStatus)
BY DEF Sound, NewStatus

LEMMA StatusInit == ASSUME NoLegacy PROVE Init => StatusInv
<1> SUFFICES ASSUME Init PROVE StatusInv
  OBVIOUS
<1>1. pc = "idle" /\ stream = <<NewCfg(1)>>
  BY DEF Init, NoLegacy
<1>2. DOMAIN stream = {1} /\ stream[1] = NewCfg(1) /\ Api = NewCfg(1)
  BY <1>1 DEF Api
<1>3. NewCfg(1).gen = 1 /\ NewCfg(1).st = NewStatus /\ NewStatus.obs = 0
  BY DEF NewCfg, NewStatus
<1> QED
  BY <1>1, <1>2, <1>3, NewSound
     DEF StatusInv, Growing, Follows, ObsCovered, ReadCovered, AllSound, ReadSound, SentSound,
         MidReconcile

\* The merge of a patch made from a stale copy is sound: the copy's status is no
\* newer than the stored one, and its generation no older than what was recorded.
LEMMA MergeSound ==
    ASSUME NEW q, NEW u, NEW old \in Statuses, NEW s \in Statuses, NEW n \in Statuses,
           NEW g \in Nat, Sound(q, u, old), Sound(q, u, s), Sound(q, u, n), Moves(s, n, g),
           s.obs <= old.obs, old.obs <= g
    PROVE  LET m == MergePatch(old, s, n)
           IN Sound(q, u, m) /\ old.obs <= m.obs /\ m.obs <= g
<1> DEFINE m == MergePatch(old, s, n)
<1>1. /\ m.pid = Merge(old.pid, s.pid, n.pid) /\ m.started = Merge(old.started, s.started, n.started)
      /\ m.obs = Merge(old.obs, s.obs, n.obs) /\ m.applied = Merge(old.applied, s.applied, n.applied)
  BY DEF MergePatch
<1>2. /\ old.obs \in Nat /\ s.obs \in Nat /\ n.obs \in Nat
      /\ old.pid \in Nat /\ s.pid \in Nat /\ n.pid \in Nat
  BY DEF Statuses
<1> HIDE DEF m
<1>3. m.started = m.pid
  BY <1>1 DEF Sound, Merge
<1>4. m.applied.status = "True" =>
           \E p \in DOMAIN q : q[p].uid = u /\ q[p].gen = m.applied.gen /\ Vouches(q[p])
  BY <1>1 DEF Sound, Merge
<1>5. old.obs <= m.obs /\ m.obs <= g
  BY <1>1, <1>2 DEF Merge, Moves, Keeps, Clears, Records
<1>6. ASSUME m.pid > 0
      PROVE  m.pid \in DOMAIN q /\ q[m.pid].uid = u /\ q[m.pid].gen = m.obs
  <2>1. CASE Keeps(s, n)
    <3>1. m.pid = old.pid /\ m.obs = old.obs
      BY <1>1, <2>1 DEF Keeps, Merge
    <3> QED
      BY <1>6, <3>1 DEF Sound
  <2>2. CASE Clears(s, n)
    BY <1>1, <1>2, <1>6, <2>2 DEF Clears, Merge
  <2>3. CASE Records(s, n, g)
    <3>1. m.pid = n.pid
      BY <1>1, <1>2, <2>3 DEF Records, Merge
    <3>2. m.obs = n.obs
      BY <1>1, <1>2, <2>3 DEF Records, Merge
    <3> QED
      BY <1>6, <3>1, <3>2 DEF Sound
  <2> QED
    BY <2>1, <2>2, <2>3 DEF Moves
<1> QED
  BY <1>3, <1>4, <1>5, <1>6 DEF Sound, m

\* What a write does to the status.
LEMMA StatusForward ==
    ASSUME TypeOK, LagInv, [Next]_vars
    PROVE  /\ Follows(Api, Api') /\ Api'.st.obs <= Api'.gen
           /\ Sound(scripts, Api'.uid, Api'.st)
           /\ Api'.uid = Api.uid =>
                  \A i \in DOMAIN stream : stream[i].uid = Api.uid => Api'.st.obs <= stream[i].gen
<1>1. /\ Api \in Versions /\ Api.uid \in Nat /\ Api.gen \in Nat /\ Api.st.obs \in Nat
      /\ Api.st \in Statuses /\ snap.st \in Statuses /\ next \in Statuses /\ snap.gen \in Nat
  BY InHand
<1>9. UidInv
  BY DEF LagInv
<1>2. /\ Sound(scripts, Api.uid, Api.st) /\ Api.st.obs <= Api.gen
      /\ \A i \in DOMAIN stream : stream[i].uid = Api.uid => Api.st.obs <= stream[i].gen
  BY Ends DEF LagInv, StatusInv, AllSound, ObsCovered
<1>3. CASE Api' = Api
  BY <1>1, <1>2, <1>3 DEF Follows
<1>4. CASE Finalizes(Api')
  <2>1. Api'.uid = Api.uid /\ Api'.st = Api.st /\ Api'.gen = Api.gen
    BY <1>4 DEF Finalizes
  <2> QED
    BY <1>1, <1>2, <2>1 DEF Follows
<1>5. CASE Edits(Api')
  <2>1. Api'.uid = Api.uid /\ Api'.st = Api.st /\ Api.gen <= Api'.gen /\ Api'.gen \in Nat
    BY <1>5, <1>9, ApiForward DEF Edits, Versions
  <2> QED
    BY <1>1, <1>2, <2>1 DEF Follows
<1>6. CASE Recreates(Api')
  <2>1. Api'.uid = Api.uid + 1 /\ Api'.st = NewStatus /\ Api'.gen = 1
    BY <1>6 DEF Recreates
  <2>2. NewStatus.obs = 0
    BY DEF NewStatus
  <2> QED
    BY <1>1, <2>1, <2>2, NewSound DEF Follows
<1>7. CASE Patches(Api')
  <2>1. pc = "patch" /\ MidReconcile
    BY <1>7 DEF Patches, PatchStatus, PatchStatusAnswerLost, MidReconcile
  <2>2. Sound(scripts, Api.uid, snap.st) /\ Sound(scripts, Api.uid, next)
        /\ Moves(snap.st, next, snap.gen) /\ snap.uid = Api.uid
    BY <2>1 DEF LagInv, UidInv, Present, StatusInv, ReadSound, SentSound
  <2>3. snap.st.obs <= Api.st.obs /\ Api.st.obs <= snap.gen
        /\ \A i \in DOMAIN stream : stream[i].uid = snap.uid => snap.gen <= stream[i].gen
    BY <2>1 DEF LagInv, StatusInv, ReadCovered
  <2> DEFINE m == MergePatch(Api.st, snap.st, next)
  <2>4. Sound(scripts, Api.uid, m) /\ Api.st.obs <= m.obs /\ m.obs <= snap.gen
    BY <1>1, <1>2, <2>2, <2>3, MergeSound
  <2>5. Api'.uid = Api.uid /\ Api'.gen = Api.gen /\ Api'.st = m
    BY <1>7 DEF Patches
  <2>6. m.obs \in Nat
    <3>1. m \in Statuses
      BY <1>1, MergeType
    <3> QED
      BY <3>1 DEF Statuses
  <2> HIDE DEF m
  <2>7. \A i \in DOMAIN stream : stream[i].uid = Api.uid => m.obs <= stream[i].gen
    <3> TAKE i \in DOMAIN stream
    <3>1. stream[i].gen \in Nat
      BY Ends
    <3> QED
      BY <1>1, <2>2, <2>3, <2>4, <2>6, <3>1
  <2>8. m.obs <= Api.gen
    BY <2>7, Ends
  <2> QED
    BY <1>1, <2>4, <2>5, <2>7, <2>8 DEF Follows
<1> QED
  BY <1>3, <1>4, <1>5, <1>6, <1>7, <1>9, ApiForward

LEMMA GrowingStep == ASSUME TypeOK, LagInv, [Next]_vars PROVE Growing' /\ ObsCovered'
<1>1. /\ Follows(Api, Api') /\ Api'.st.obs <= Api'.gen
      /\ Api'.uid = Api.uid =>
             \A i \in DOMAIN stream : stream[i].uid = Api.uid => Api'.st.obs <= stream[i].gen
  BY StatusForward
<1>2. UidInv /\ \A i, j \in DOMAIN stream : i <= j => Follows(stream[i], stream[j])
  BY DEF LagInv, StatusInv, Growing
<1>3. /\ \A i \in DOMAIN stream : Before(stream[i], Api') /\ Before(stream[i], Api)
      /\ Before(Api, Api') /\ Api' \in Versions
  BY <1>2, InOrderStep, ApiForward, Ends DEF UidInv, InOrder
<1>4. /\ Api.uid \in Nat /\ Api.gen \in Nat /\ Api.st.obs \in Nat
      /\ Api'.uid \in Nat /\ Api'.gen \in Nat /\ Api'.st.obs \in Nat
  BY <1>3, InHand DEF Versions, Statuses
<1>5. \A i \in DOMAIN stream : Follows(stream[i], Api')
  <2> TAKE i \in DOMAIN stream
  <2>1. Follows(stream[i], Api) /\ stream[i].uid \in Nat /\ stream[i].gen \in Nat
        /\ stream[i].st.obs \in Nat
    BY <1>2, Ends
  <2> QED
    BY <1>1, <1>3, <1>4, <2>1 DEF Follows, Before
<1>6. Follows(Api', Api')
  BY <1>4 DEF Follows
<1>7. ASSUME NEW i \in DOMAIN stream', NEW j \in DOMAIN stream', i <= j
      PROVE  Follows(stream'[i], stream'[j])
  BY <1>2, <1>5, <1>6, <1>7, PairMoves
<1>8. ASSUME NEW i \in DOMAIN stream', stream'[i].uid = Api'.uid
      PROVE  Api'.st.obs <= stream'[i].gen
  <2>1. CASE stream'[i] = Api'
    BY <1>1, <2>1
  <2>2. CASE \E j \in DOMAIN stream : stream'[i] = stream[j]
    <3>1. PICK j \in DOMAIN stream : stream'[i] = stream[j]
      BY <2>2
    <3>2. stream[j].uid = Api.uid /\ Api'.uid = Api.uid
      <4>1. stream[j].uid \in Nat
        BY Ends
      <4> QED
        BY <1>3, <1>4, <1>8, <3>1, <4>1 DEF Before
    <3> QED
      BY <1>1, <3>1, <3>2
  <2> QED
    BY <2>1, <2>2, OldOrNew
<1> QED
  BY <1>7, <1>8 DEF Growing, ObsCovered

LEMMA ReadCoveredStep == ASSUME TypeOK, LagInv, [Next]_vars PROVE ReadCovered'
<1> SUFFICES ASSUME MidReconcile'
             PROVE  /\ snap'.st.obs <= Api'.st.obs /\ Api'.st.obs <= snap'.gen
                    /\ \A i \in DOMAIN stream' :
                           stream'[i].uid = snap'.uid => snap'.gen <= stream'[i].gen
  BY DEF ReadCovered
<1>1. UidInv /\ UidInv'
  BY UidStep DEF LagInv
<1>2. snap'.uid = Api'.uid
  BY <1>1 DEF UidInv, Present
<1>3. CASE UNCHANGED local
  <2>1. MidReconcile /\ UNCHANGED <<pc, snap>> /\ pc # "idle" /\ pc' # "idle"
    BY <1>3 DEF MidReconcile, local
  <2>2. snap.uid = Api.uid
    BY <1>1, <2>1 DEF UidInv, Present
  <2>3. ~Finalizes(Api') /\ ~Recreates(Api')
    BY <1>2, <2>1, <2>2, InHand DEF Finalizes, Recreates
  <2>4. ~Patches(Api')
    <3>1. CASE pc = "patch" /\ ret = "checkReady"
      BY <3>1 DEF LagInv, StatusInv, SentSound
    <3>2. CASE pc = "patch" /\ ret # "checkReady"
      BY <2>1, <3>2 DEF Patches, PatchStatus, PatchStatusAnswerLost, Return
    <3> QED
      BY <3>1, <3>2 DEF Patches, PatchStatus, PatchStatusAnswerLost
  <2>5. Api'.st = Api.st /\ Api.gen <= Api'.gen
    BY <1>1, <2>3, <2>4, ApiForward, InHand DEF Edits
  <2>6. /\ snap.st.obs <= Api.st.obs /\ Api.st.obs <= snap.gen
        /\ \A i \in DOMAIN stream : stream[i].uid = snap.uid => snap.gen <= stream[i].gen
    BY <2>1 DEF LagInv, StatusInv, ReadCovered
  <2>7. snap.gen <= Api'.gen
    <3>1. snap.gen <= Api.gen
      BY <2>2, <2>6, Ends
    <3>2. Api' \in Versions /\ Api'.gen \in Nat
      BY <1>1, ApiForward DEF Versions
    <3> QED
      BY <2>5, <3>1, <3>2, InHand
  <2>8. ASSUME NEW i \in DOMAIN stream', stream'[i].uid = snap.uid
        PROVE  snap.gen <= stream'[i].gen
    BY <2>6, <2>7, <2>8, OldOrNew
  <2> QED
    BY <2>1, <2>5, <2>6, <2>8
<1>4. CASE Reads
  <2>1. Api' = Api /\ snap' = Cache /\ UNCHANGED stream /\ Cache = stream[1]
    BY <1>4, Ends DEF Reads, Api
  <2>2. Cache.uid = Api.uid
    BY <1>2, <2>1
  <2>3. Follows(Cache, Api) /\ \A i \in DOMAIN stream : Follows(Cache, stream[i])
    BY <2>1, Ends DEF LagInv, StatusInv, Growing
  <2>4. Api.st.obs <= Cache.gen
    BY <2>1, <2>2, Ends DEF LagInv, StatusInv, ObsCovered
  <2> QED
    BY <2>1, <2>2, <2>3, <2>4 DEF Follows
<1>5. CASE Proceeds
  <2>1. Api' = Api /\ UNCHANGED <<snap, stream>> /\ MidReconcile
    BY <1>5 DEF Proceeds, Api
  <2> QED
    BY <2>1 DEF LagInv, StatusInv, ReadCovered
<1>6. ~Stamps
  BY DEF Stamps, LagInv, StatusInv, SentSound
<1> QED
  BY <1>3, <1>4, <1>5, <1>6, LocalMoves DEF MidReconcile

LEMMA AllSoundStep == ASSUME TypeOK, LagInv, [Next]_vars PROVE AllSound'
<1>1. Grows(scripts, scripts')
  BY ScriptsGrow
<1>2. Sound(scripts', Api'.uid, Api'.st)
  BY <1>1, StatusForward, SoundGrows
<1>3. \A j \in DOMAIN stream : Sound(scripts', stream[j].uid, stream[j].st)
  BY <1>1, SoundGrows DEF LagInv, StatusInv, AllSound
<1>4. ASSUME NEW i \in DOMAIN stream' PROVE Sound(scripts', stream'[i].uid, stream'[i].st)
  BY <1>2, <1>3, <1>4, OldOrNew
<1> QED
  BY <1>4 DEF AllSound

LEMMA ReadSoundStep == ASSUME TypeOK, LagInv, [Next]_vars PROVE ReadSound'
<1> SUFFICES ASSUME MidReconcile' PROVE Sound(scripts', snap'.uid, snap'.st)
  BY DEF ReadSound
<1>1. Grows(scripts, scripts')
  BY ScriptsGrow
<1>2. CASE UNCHANGED local \/ Proceeds
  <2>1. MidReconcile /\ snap' = snap
    BY <1>2 DEF MidReconcile, local, Proceeds
  <2> QED
    BY <1>1, <2>1, SoundGrows DEF LagInv, StatusInv, ReadSound
<1>3. CASE Reads
  BY <1>1, <1>3, Ends, SoundGrows DEF Reads, LagInv, StatusInv, AllSound
<1>4. ~Stamps
  BY DEF Stamps, LagInv, StatusInv, SentSound
<1> QED
  BY <1>2, <1>3, <1>4, LocalMoves DEF MidReconcile

LEMMA FinishedSound ==
    ASSUME NEW q, NEW u, NEW s \in Statuses, NEW g \in Nat, Sound(q, u, s), s.pid > 0
    PROVE  /\ Sound(q, u, Failed(s)) /\ Moves(s, Failed(s), g)
           /\ Sound(q, u, Lost(s)) /\ Moves(s, Lost(s), g)
           /\ Vouches(q[s.pid]) =>
                  Sound(q, u, Applied(s, g)) /\ Moves(s, Applied(s, g), g)
<1>1. Sound(q, u, Failed(s)) /\ Moves(s, Failed(s), g)
  <2>1. Failed(s).pid = 0 /\ Failed(s).started = 0 /\ Failed(s).obs = s.obs
        /\ Failed(s).applied = False(s.obs, "Failed")
    BY FailedFields
  <2>2. Failed(s).applied.status = "False"
    BY <2>1 DEF False
  <2> QED
    BY <2>1, <2>2 DEF Sound, Moves, Clears
<1>2. Sound(q, u, Lost(s)) /\ Moves(s, Lost(s), g)
  <2>1. Lost(s).pid = 0 /\ Lost(s).started = 0 /\ Lost(s).obs = s.obs
        /\ Lost(s).applied = s.applied
    BY LostFields
  <2> QED
    BY <2>1 DEF Sound, Moves, Clears
<1>3. ASSUME Vouches(q[s.pid])
      PROVE  Sound(q, u, Applied(s, g)) /\ Moves(s, Applied(s, g), g)
  <2>1. /\ Applied(s, g).pid = 0 /\ Applied(s, g).started = 0 /\ Applied(s, g).obs = s.obs
        /\ Applied(s, g).applied = True(s.obs)
    BY AppliedFields
  <2>2. Applied(s, g).applied.gen = s.obs
    BY <2>1 DEF True
  <2>3. s.pid \in DOMAIN q /\ q[s.pid].uid = u /\ q[s.pid].gen = s.obs
    BY DEF Sound
  <2> QED
    BY <1>3, <2>1, <2>2, <2>3 DEF Sound, Moves, Clears
<1> QED
  BY <1>1, <1>2, <1>3

LEMMA KeptSound ==
    ASSUME NEW q, NEW u, NEW s \in Statuses, NEW g \in Nat, Sound(q, u, s)
    PROVE  /\ Sound(q, u, NotReady(s)) /\ Moves(s, NotReady(s), g)
           /\ Sound(q, u, [s EXCEPT !.phase = "Applying"])
           /\ Moves(s, [s EXCEPT !.phase = "Applying"], g)
<1>1. Sound(q, u, NotReady(s)) /\ Moves(s, NotReady(s), g)
  <2>1. NotReady(s).pid = s.pid /\ NotReady(s).started = s.started /\ NotReady(s).obs = s.obs
        /\ NotReady(s).applied = False(s.obs, "NotReady")
    BY NotReadyFields
  <2>2. NotReady(s).applied.status = "False"
    BY <2>1 DEF False
  <2> QED
    BY <2>1, <2>2 DEF Sound, Moves, Keeps
<1>2. Sound(q, u, [s EXCEPT !.phase = "Applying"]) /\ Moves(s, [s EXCEPT !.phase = "Applying"], g)
  <2> DEFINE n == [s EXCEPT !.phase = "Applying"]
  <2>1. n.pid = s.pid /\ n.started = s.started /\ n.obs = s.obs /\ n.applied = s.applied
    BY PhaseFields DEF Phases
  <2> HIDE DEF n
  <2>2. Sound(q, u, n) /\ Moves(s, n, g)
    BY <2>1 DEF Sound, Moves, Keeps
  <2> QED
    BY <2>2 DEF n
<1> QED
  BY <1>1, <1>2

LEMMA DispatchedSound ==
    ASSUME NEW q, NEW u, NEW s \in Statuses, NEW g \in Nat, s.pid = 0, NEW r \in Nat,
           NEW p \in Nat, p > 0, p \in DOMAIN q, q[p].uid = u, q[p].gen = g
    PROVE  Sound(q, u, Dispatched(s, p, g, r)) /\ Moves(s, Dispatched(s, p, g, r), g)
<1> DEFINE n == Dispatched(s, p, g, r)
<1>1. n.pid = p /\ n.started = p /\ n.obs = g /\ n.applied = False(g, "Applying")
  BY DEF Dispatched, Statuses
<1> HIDE DEF n
<1>2. n.applied.status = "False"
  BY <1>1 DEF False
<1>3. Sound(q, u, n) /\ Moves(s, n, g)
  BY <1>1, <1>2 DEF Sound, Moves, Records
<1> QED
  BY <1>3 DEF n

\* The exec that applyConfig started is of the copy's incarnation and generation.
LEMMA StartedScript ==
    ASSUME TypeOK, applyConfig \/ applyConfigUnreachable
    PROVE  LET p == Len(scripts) + 1
           IN /\ p \in Nat /\ p > 0 /\ p \in DOMAIN scripts'
              /\ scripts'[p].uid = snap.uid /\ scripts'[p].gen = snap.gen
<1> DEFINE p == Len(scripts) + 1
<1>1. snap.gen \in Nat /\ snap.uid \in Nat /\ reboot \in Nat
      /\ scripts \in Seq(Scripts) /\ p \in Nat /\ p > 0
  BY InHand DEF TypeOK
<1>2. \A r \in Nat : /\ p \in DOMAIN Start(r)
                     /\ Start(r)[p].uid = snap.uid /\ Start(r)[p].gen = snap.gen
                     /\ Start(r)[p] \in Scripts
  <2> TAKE r \in Nat
  <2>1. NewScript(snap.uid, snap.gen, r) \in Scripts
    BY <1>1, ScriptType
  <2>2. Start(r)[p] = NewScript(snap.uid, snap.gen, r) /\ p \in DOMAIN Start(r)
    BY <1>1, <2>1, AppendProperties DEF Start
  <2> QED
    BY <2>1, <2>2 DEF NewScript
<1>3. CASE applyConfig
  <2>1. \E r \in Nat : scripts' = Start(r)
    BY <1>1, <1>3 DEF applyConfig
  <2> QED
    BY <1>1, <1>2, <2>1
<1>4. CASE applyConfigUnreachable
  <2>1. \A x \in Scripts : [x EXCEPT !.st = "dead", !.broken = TRUE].uid = x.uid
                           /\ [x EXCEPT !.st = "dead", !.broken = TRUE].gen = x.gen
    BY DEF Scripts
  <2>2. p \in DOMAIN scripts'
        /\ scripts'[p] = [Start(0)[p] EXCEPT !.st = "dead", !.broken = TRUE]
    BY <1>2, <1>4 DEF applyConfigUnreachable
  <2> QED
    BY <1>1, <1>2, <2>1, <2>2
<1> QED
  BY <1>3, <1>4

LEMMA SentSoundStep == ASSUME TypeOK, LagInv, [Next]_vars PROVE SentSound'
<1> DEFINE Right(n) == Sound(scripts', snap.uid, n) /\ Moves(snap.st, n, snap.gen)
<1> SUFFICES ASSUME pc' = "patch"
             PROVE  /\ Sound(scripts', snap'.uid, next')
                    /\ Moves(snap'.st, next', snap'.gen)
                    /\ ret' # "checkReady"
  BY DEF SentSound
<1>1. Grows(scripts, scripts')
  BY ScriptsGrow
<1>2. CASE UNCHANGED local
  <2>1. UNCHANGED <<pc, snap, next, ret>>
    BY <1>2 DEF local
  <2> QED
    BY <1>1, <2>1, SoundGrows DEF LagInv, StatusInv, SentSound
<1>3. CASE Proceeds
  <2>1. MidReconcile /\ snap' = snap /\ pc # "patch"
    BY <1>3 DEF Proceeds
  <2>2. snap.st \in Statuses /\ snap.gen \in Nat /\ reboot \in Nat
        /\ snap.st.pid \in Nat
    BY InHand DEF TypeOK
  <2>3. Sound(scripts, snap.uid, snap.st) /\ Sound(scripts', snap.uid, snap.st)
    BY <1>1, <2>1, SoundGrows DEF LagInv, StatusInv, ReadSound
  <2>4. ASSUME NEW n, NEW then \in {"done", "requeue"}, SendPatch(n, then), Right(n)
        PROVE  /\ Sound(scripts', snap'.uid, next')
               /\ Moves(snap'.st, next', snap'.gen)
               /\ ret' # "checkReady"
    BY <2>1, <2>4 DEF SendPatch
  <2>5. ~onChange
    <3>1. ~NeedsStart(snap.st)
      BY <2>2, <2>3 DEF Sound, NeedsStart
    <3> QED
      BY <3>1 DEF onChange
  <2>6. CASE CheckReadyFails
    <3>1. snap.st.pid > 0 => Right(Failed(snap.st))
      BY <2>2, <2>3, FinishedSound
    <3>2. Right(NotReady(snap.st))
      BY <2>2, <2>3, KeptSound
    <3> HIDE DEF Right
    <3>3. \/ snap.st.pid > 0 /\ SendPatch(Failed(snap.st), "done")
          \/ SendPatch(NotReady(snap.st), "requeue")
      BY <2>6 DEF CheckReadyFails, TimedOut, Return
    <3> QED
      BY <2>4, <3>1, <3>2, <3>3
  <2>7. CASE Poll
    <3>1. snap.st.pid > 0
      BY <2>7 DEF Poll, PollRunning, PollExited, PollLost, PollError
    <3>2. Right(Failed(snap.st)) /\ Right(Lost(snap.st))
          /\ Right([snap.st EXCEPT !.phase = "Applying"])
      BY <2>2, <2>3, <3>1, FinishedSound, KeptSound
    <3>3. Vouches(scripts[snap.st.pid]) => Right(Applied(snap.st, snap.gen))
      <4>1. Vouches(scripts[snap.st.pid]) => Vouches(scripts'[snap.st.pid])
        BY <1>1, <2>3, <3>1 DEF Sound, Grows
      <4> QED
        BY <2>2, <2>3, <3>1, <4>1, FinishedSound
    <3> HIDE DEF Right
    <3>4. \/ SendPatch(Failed(snap.st), "done")
          \/ SendPatch(Lost(snap.st), "requeue")
          \/ SendPatch([snap.st EXCEPT !.phase = "Applying"], "requeue")
          \/ Vouches(scripts[snap.st.pid]) /\ SendPatch(Applied(snap.st, snap.gen), "done")
      <4>1. "ok" \in Answers(snap.st.pid) => Vouches(scripts[snap.st.pid])
        BY DEF Answers, Vouches
      <4> QED
        BY <2>7, <4>1 DEF Poll, PollRunning, PollExited, ExitedOk, PollLost, PollError, Return
    <3> QED
      BY <2>4, <3>2, <3>3, <3>4
  <2>8. CASE applyConfig \/ applyConfigUnreachable
    <3> DEFINE p == Len(scripts) + 1
               n == Dispatched(snap.st, p, snap.gen, reboot)
    <3>1. snap.st.pid = 0 /\ SendPatch(n, "requeue")
      BY <2>8 DEF applyConfig, applyConfigUnreachable, MustApply, NothingInFlight
    <3>2. p \in Nat /\ p > 0 /\ p \in DOMAIN scripts'
          /\ scripts'[p].uid = snap.uid /\ scripts'[p].gen = snap.gen
      BY <2>8, StartedScript
    <3> HIDE DEF p
    <3>3. Right(n)
      BY <2>2, <3>1, <3>2, DispatchedSound
    <3> HIDE DEF n, Right
    <3> QED
      BY <2>4, <3>1, <3>3
  <2>9. \/ CheckReadyFails \/ Poll \/ applyConfig \/ applyConfigUnreachable \/ onChange
    <3>1. CASE Controller
      BY <1>3, <3>1 DEF Controller, Reconcile, UpdateFinalizer, onChangeStopped, onChangeError,
           CheckReady, Dispatch, SkipDone, applyConfigError, Return, Proceeds, MidReconcile,
           Patch, PatchStatus, PatchStatusFails, PatchStatusAnswerLost
    <3>2. ~Environment
      BY <1>3, <2>1 DEF Environment, Deliver, SpecUpdate, Delete, Recreate, Write, ScriptEnds,
           Finish, TimePasses, Elapse, VMStop, VMStart, TargetPoll, RebootPublish, AgentFails,
           OperatorRestart, OthersShare, NumberReused, ResultTaken, Return, local
    <3> QED
      BY <1>3, <2>1, <3>1, <3>2 DEF Next, vars, local
  <2> QED
    BY <2>5, <2>6, <2>7, <2>8, <2>9
<1>4. ~Reads
  BY DEF Reads, Branch
<1> QED
  BY <1>2, <1>3, <1>4, LocalMoves DEF Stamps

LEMMA LagStep == TypeOK /\ LagInv /\ [Next]_vars => LagInv'
BY UidStep, GrowingStep, ReadCoveredStep, AllSoundStep, ReadSoundStep, SentSoundStep
   DEF LagInv, StatusInv

LEMMA LagAlways == ASSUME NoLegacy PROVE Spec => [](TypeOK /\ LagInv)
<1>1. Init => TypeOK /\ LagInv
  BY TypeInit, UidInit, StatusInit DEF LagInv
<1>2. TypeOK /\ LagInv /\ [Next]_vars => (TypeOK /\ LagInv)'
  BY TypeStep, LagStep
<1> QED
  BY <1>1, <1>2, PTL DEF Spec

\* However far the cache is behind, Applied=True names a generation of this very
\* object whose script succeeded (pollExecStatus stamps the generation dispatched), or
\* whose handle the daemon provider gave to another config's call after a restart.
THEOREM AppliedSoundBehind == ASSUME NoLegacy PROVE Spec => []AppliedSound
<1>1. TypeOK /\ LagInv => AppliedSound
  BY Ends DEF LagInv, StatusInv, AllSound, Sound, AppliedSound, Vouches
<1> QED
  BY <1>1, LagAlways, PTL

\* And where numbers are not given out twice, a script of that generation of this very
\* object did succeed.
THEOREM AppliedOwnBehind ==
    ASSUME NoLegacy, OwnHandles PROVE Spec => []AppliedByOwnScript
BY AppliedSoundBehind, OwnAlways, OwnApplied, PTL

\* However far the cache is behind, the recorded handle was given to an exec of this
\* object and of the generation that observedGeneration names.
THEOREM HandleOwnBehind == ASSUME NoLegacy PROVE Spec => []HandleMatchesGeneration
<1>1. TypeOK /\ LagInv => HandleMatchesGeneration
  BY Ends DEF LagInv, StatusInv, AllSound, Sound, HandleMatchesGeneration
<1> QED
  BY <1>1, LagAlways, PTL

\* However far the cache is behind, an exec in flight carries its own start time,
\* so execApplyTimeout applies to it.
THEOREM ClockBehind == ASSUME NoLegacy PROVE Spec => []TimeoutClockMatchesExec
<1>1. TypeOK /\ LagInv => TimeoutClockMatchesExec
  BY Ends DEF LagInv, StatusInv, AllSound, Sound, TimeoutClockMatchesExec
<1> QED
  BY <1>1, LagAlways, PTL

\* However far the cache is behind, a generation once dispatched is not forgotten.
THEOREM ObservedGrows == ASSUME NoLegacy PROVE Spec => ObservedNeverRegresses
<1>1. TypeOK /\ LagInv /\ [Next]_vars => [Api'.uid = Api.uid => Api'.st.obs >= Api.st.obs]_vars
  <2> SUFFICES ASSUME TypeOK, LagInv, [Next]_vars, Api'.uid = Api.uid
               PROVE  Api'.st.obs >= Api.st.obs
    OBVIOUS
  <2>1. Follows(Api, Api')
    BY StatusForward
  <2> QED
    BY <2>1 DEF Follows
<1> QED
  BY <1>1, LagAlways, PTL DEF Spec, ObservedNeverRegresses

=============================================================================
