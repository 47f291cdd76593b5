-------------------------- MODULE Scheduler_proofs --------------------------
(***************************************************************************)
(* Proofs about the mission scheduler, for every fleet, every pool and     *)
(* every cap.  Missions whose ids are their own are a hypothesis of the    *)
(* theorems (UniqueIds).                                                   *)
(***************************************************************************)
EXTENDS Scheduler, FiniteSetTheorems, TLAPS

Core == <<phase, queue, running, slot, live, active>>

-----------------------------------------------------------------------------
(* The operators.                                                          *)

\* What the removal of an entry leaves of a sequence.
LEMMA RemovedAt ==
  ASSUME NEW S, NEW q \in Seq(S), NEW n \in 1..Len(q)
  PROVE  /\ RemoveAt(q, n) \in Seq(S)
         /\ Len(RemoveAt(q, n)) = Len(q) - 1
         /\ \A m \in 1..(Len(q) - 1) :
              RemoveAt(q, n)[m] = IF m < n THEN q[m] ELSE q[m + 1]
<1> DEFINE front == SubSeq(q, 1, n - 1)
           back  == SubSeq(q, n + 1, Len(q))
<1>1. front \in Seq(S) /\ Len(front) = n - 1 /\ \A m \in 1..(n - 1) : front[m] = q[m]
  OBVIOUS
<1>2. /\ back \in Seq(S) /\ Len(back) = Len(q) - n
      /\ \A m \in 1..(Len(q) - n) : back[m] = q[n + m]
  OBVIOUS
<1> HIDE DEF front, back
<1>3. RemoveAt(q, n) = front \o back
  BY DEF RemoveAt, front, back
<1>4. /\ front \o back \in Seq(S) /\ Len(front \o back) = Len(q) - 1
      /\ \A m \in 1..(Len(q) - 1) :
           (front \o back)[m] = IF m < n THEN front[m] ELSE back[m - (n - 1)]
  BY <1>1, <1>2
<1>5. ASSUME NEW m \in 1..(Len(q) - 1)
      PROVE  (front \o back)[m] = IF m < n THEN q[m] ELSE q[m + 1]
  <2>1. CASE m < n
    BY <1>1, <1>4, <2>1
  <2>2. CASE ~(m < n)
    <3>1. m - (n - 1) \in 1..(Len(q) - n) /\ n + (m - (n - 1)) = m + 1
      BY <2>2
    <3> QED
      BY <1>2, <1>4, <2>2, <3>1
  <2> QED
    BY <2>1, <2>2
<1> QED
  BY <1>3, <1>4, <1>5

\* The place of a queued job.
LEMMA PositionIs ==
  ASSUME NEW j \in Range(queue), queue \in Seq(Job)
  PROVE  Position(j) \in 1..Len(queue) /\ queue[Position(j)] = j
BY DEF Position, Range

\* A drained entry leaves the others in the queue, once each.
LEMMA DequeueShape ==
  ASSUME queue \in Seq(Job), QueueShape, NEW j \in Range(queue),
         queue' = RemoveAt(queue, Position(j)),
         phase \in [Job -> Phase], phase' = [phase EXCEPT ![j] = "running"]
  PROVE  queue' \in Seq(Job) /\ QueueShape'
<1> DEFINE n == Position(j)
<1>1. n \in 1..Len(queue) /\ queue[n] = j
  BY PositionIs
<1> HIDE DEF n
<1>2. /\ queue' \in Seq(Job) /\ Len(queue') = Len(queue) - 1
      /\ \A m \in 1..(Len(queue) - 1) : queue'[m] = IF m < n THEN queue[m] ELSE queue[m + 1]
  BY <1>1, RemovedAt DEF n
<1>3. \A m \in 1..Len(queue) : queue[m] \in Job
  OBVIOUS
<1>4. \A m \in DOMAIN queue' : phase'[queue'[m]] = "queued"
  <2> TAKE m \in DOMAIN queue'
  <2>1. m \in 1..(Len(queue) - 1)
    BY <1>2
  <2>2. PICK l \in 1..Len(queue) : queue'[m] = queue[l] /\ l # n
    BY <1>1, <1>2, <2>1
  <2>3. queue[l] # j
    BY <1>1, <2>2 DEF QueueShape
  <2> QED
    BY <1>3, <2>2, <2>3 DEF QueueShape
<1>5. \A k, l \in DOMAIN queue' : queue'[k] = queue'[l] => k = l
  <2> SUFFICES ASSUME NEW k \in 1..(Len(queue) - 1), NEW l \in 1..(Len(queue) - 1),
                      queue'[k] = queue'[l]
               PROVE  k = l
    BY <1>2
  <2> DEFINE at(m) == IF m < n THEN m ELSE m + 1
  <2>1. at(k) \in 1..Len(queue) /\ at(l) \in 1..Len(queue)
    BY <1>1
  <2>2. queue[at(k)] = queue[at(l)]
    BY <1>2
  <2>3. at(k) = at(l)
    BY <2>1, <2>2 DEF QueueShape
  <2> QED
    BY <1>1, <2>3
<1> QED
  BY <1>2, <1>4, <1>5 DEF QueueShape

LEMMA Finite ==
  /\ \A p : IsFiniteSet({i \in Id : slot[i] = p}) 
  /\ IsFiniteSet(InFlight)
<1>1. IsFiniteSet(Id) /\ IsFiniteSet(Job)
  BY JobAssumption
<1>2. \A p : {i \in Id : slot[i] = p} \in SUBSET Id
  OBVIOUS
<1>3. InFlight \in SUBSET Job
  BY DEF InFlight
<1> QED
  BY <1>1, <1>2, <1>3, FS_Subset

\* Giving back a slot that is held keeps the accounts, and no count grows.
LEMMA GiveBackCounts ==
  ASSUME TypeOK, SlotsAccounted, NEW i \in Id, slot[i] # Free, GiveBack(i)
  PROVE  /\ running' \in [Pool -> Nat] /\ slot' \in [Id -> Pool \cup {Free}]
         /\ SlotsAccounted'
         /\ \A p \in Pool : running'[p] <= running[p]
<1> DEFINE held(p) == {k \in Id : slot[k] = p}
<1>1. slot[i] \in Pool /\ slot' \in [Id -> Pool \cup {Free}]
  BY DEF TypeOK, GiveBack
<1>2. \A p \in Pool : IsFiniteSet(held(p)) /\ running[p] = Cardinality(held(p))
  BY Finite DEF SlotsAccounted
<1>3. ASSUME NEW p \in Pool
      PROVE  {k \in Id : slot'[k] = p} = held(p) \ {i}
  BY <1>1, JobAssumption DEF TypeOK, GiveBack
<1>4. ASSUME NEW p \in Pool
      PROVE  Cardinality(held(p) \ {i}) = IF i \in held(p) THEN Cardinality(held(p)) - 1
                                                             ELSE Cardinality(held(p))
  BY <1>2, FS_RemoveElement
<1>5. \A p \in Pool : i \in held(p) => Cardinality(held(p)) > 0
  <2> TAKE p \in Pool
  <2> HAVE i \in held(p)
  <2>1. Cardinality(held(p)) \in Nat
    BY <1>2, FS_CardinalityType
  <2>2. Cardinality(held(p)) # 0
    BY <1>2, FS_EmptySet
  <2> QED
    BY <2>1, <2>2
<1>6. \A p \in Pool : running'[p] = IF p = slot[i] THEN running[p] - 1 ELSE running[p]
  BY <1>1, <1>2, <1>5 DEF TypeOK, GiveBack
<1>7. \A p \in Pool : running'[p] = Cardinality({k \in Id : slot'[k] = p})
  BY <1>2, <1>3, <1>4, <1>6
<1>8. running' \in [Pool -> Nat] /\ \A p \in Pool : running'[p] <= running[p]
  BY <1>1, <1>2, <1>5, <1>6 DEF TypeOK, GiveBack
<1> QED
  BY <1>1, <1>7, <1>8 DEF SlotsAccounted

\* A launch of a job that holds no slot keeps the accounts.
LEMMA LaunchCounts ==
  ASSUME TypeOK, SlotsAccounted, NEW j \in Job, slot[IdOf[j]] = Free, LaunchNow(j)
  PROVE  SlotsAccounted'
<1> DEFINE held(p) == {i \in Id : slot[i] = p}
<1>1. IdOf[j] \in Id /\ PoolOf[j] \in Pool
  BY JobAssumption
<1>2. ASSUME NEW p \in Pool
      PROVE  running'[p] = Cardinality({i \in Id : slot'[i] = p})
  <2>1. IsFiniteSet(held(p)) /\ running[p] = Cardinality(held(p))
    BY Finite DEF SlotsAccounted
  <2>2. CASE p = PoolOf[j]
    <3>1. {i \in Id : slot'[i] = p} = held(p) \cup {IdOf[j]}
      BY <1>1, <2>2 DEF TypeOK, LaunchNow
    <3>2. IdOf[j] \notin held(p)
      BY JobAssumption
    <3>3. Cardinality(held(p) \cup {IdOf[j]}) = Cardinality(held(p)) + 1
      BY <2>1, <3>2, FS_AddElement
    <3> QED
      BY <2>1, <2>2, <3>1, <3>3 DEF TypeOK, LaunchNow
  <2>3. CASE p # PoolOf[j]
    <3>1. {i \in Id : slot'[i] = p} = held(p)
      BY <1>1, <2>3, JobAssumption DEF TypeOK, LaunchNow
    <3> QED
      BY <2>1, <2>3, <3>1 DEF TypeOK, LaunchNow
  <2> QED
    BY <2>2, <2>3
<1> QED
  BY <1>2 DEF SlotsAccounted

\* One more launch is in flight.
LEMMA LaunchLive ==
  ASSUME TypeOK, LiveCounted, NEW j \in Job, j \notin InFlight, LaunchNow(j)
  PROVE  LiveCounted'
<1>1. InFlight' = InFlight \cup {j}
  BY DEF InFlight, LaunchNow, TypeOK
<1>2. Cardinality(InFlight \cup {j}) = Cardinality(InFlight) + 1
  BY Finite, FS_AddElement
<1>3. live' = Cardinality(InFlight')
  BY <1>1, <1>2 DEF LiveCounted, LaunchNow
<1>4. live' # 0
  BY DEF LaunchNow, TypeOK
<1>5. active'
  BY Zenon DEF LiveCounted, LaunchNow
<1> QED
  BY <1>3, <1>4, <1>5 DEF LiveCounted

\* One launch less.
LEMMA OverLive ==
  ASSUME TypeOK, LiveCounted, NEW j \in Job, j \in InFlight, LaunchOver(j)
  PROVE  LiveCounted' /\ live' \in Nat
<1>1. InFlight' = InFlight \ {j}
  BY DEF InFlight, LaunchOver, TypeOK
<1>2. Cardinality(InFlight \ {j}) = Cardinality(InFlight) - 1
  BY Finite, FS_RemoveElement
<1>3. live # 0
  BY Finite, FS_EmptySet DEF LiveCounted
<1>4. live \in Nat /\ live' = live - 1
  BY DEF TypeOK, LaunchOver
<1>5. live' \in Nat /\ (live' # 0 <=> live # 1)
  BY <1>3, <1>4
<1>6. live' = Cardinality(InFlight')
  BY <1>1, <1>2, <1>4 DEF LiveCounted
<1>7. active' <=> live # 1
  BY <1>3, Zenon DEF LiveCounted, LaunchOver
<1> QED
  BY <1>5, <1>6, <1>7 DEF LiveCounted

-----------------------------------------------------------------------------
(* Launch, release and end keep the invariant's parts about slots.         *)

SlotInv == SlotsAccounted /\ LiveCounted /\ HolderInFlight /\ OwnHeld /\ CapKept

SlotType ==
  /\ phase \in [Job -> Phase] /\ running \in [Pool -> Nat]
  /\ slot \in [Id -> Pool \cup {Free}] /\ live \in Nat /\ active \in BOOLEAN

LEMMA LaunchKeeps ==
  ASSUME UniqueIds, TypeOK, SlotInv, NEW j \in Job, j \notin InFlight,
         CanLaunch(j), LaunchNow(j), cancelled' = cancelled
  PROVE  SlotInv' /\ SlotType'
<1>1. IdOf \in [Job -> Id] /\ PoolOf \in [Job -> Pool] /\ Own \subseteq Job /\ Free \notin Pool
  BY JobAssumption
<1>2. slot[IdOf[j]] = Free
  BY DEF SlotInv, HolderInFlight
<1>3. SlotsAccounted' /\ LiveCounted'
  BY <1>2, LaunchCounts, LaunchLive DEF SlotInv
<1>4. \A k \in Job \ {j} : slot'[IdOf[k]] = slot[IdOf[k]] /\ phase'[k] = phase[k]
  BY <1>1 DEF TypeOK, LaunchNow, UniqueIds
<1>5. slot'[IdOf[j]] = PoolOf[j] /\ phase'[j] = "running"
  BY <1>1 DEF TypeOK, LaunchNow
<1>6. HolderInFlight'
  BY <1>4, <1>5 DEF SlotInv, HolderInFlight, InFlight
<1>7. OwnHeld'
  BY <1>1, <1>4, <1>5 DEF SlotInv, OwnHeld
<1> DEFINE pool == PoolOf[j]
<1>8. /\ pool \in Pool /\ running \in [Pool -> Nat] /\ PoolCap \in [Pool -> Nat] /\ live \in Nat
      /\ running' = [running EXCEPT ![pool] = running[pool] + 1] /\ live' = live + 1
  BY <1>1, CapAssumption DEF TypeOK, LaunchNow
<1>9. running[pool] < PoolCap[pool]
  BY DEF CanLaunch
<1> HIDE DEF pool
<1>10. \A p \in Pool : running'[p] = IF p = pool THEN running[p] + 1 ELSE running[p]
  BY <1>8
<1>11. CapKept'
  BY <1>8, <1>9, <1>10 DEF SlotInv, CapKept
<1>12. SlotType'
  <2>1. phase' \in [Job -> Phase] /\ slot' \in [Id -> Pool \cup {Free}]
    BY <1>1 DEF TypeOK, LaunchNow, Phase
  <2>2. running' \in [Pool -> Nat] /\ live' \in Nat
    BY <1>8
  <2>3. active' \in BOOLEAN
    BY DEF TypeOK, LaunchNow
  <2> QED
    BY <2>1, <2>2, <2>3 DEF SlotType
<1> QED
  BY <1>3, <1>6, <1>7, <1>11, <1>12 DEF SlotInv

\* The slot of an id is given back while no mission of the project that holds
\* it works.
LEMMA GiveBackKeeps ==
  ASSUME UniqueIds, TypeOK, SlotInv, NEW i \in Id, slot[i] # Free, GiveBack(i),
         phase' \in [Job -> Phase], UNCHANGED <<live, active, cancelled>>, InFlight' = InFlight,
         \A j \in Own : (phase'[j] = "running" /\ j \notin cancelled)
                          => phase[j] = "running" /\ IdOf[j] # i
  PROVE  SlotInv' /\ SlotType'
<1>1. IdOf \in [Job -> Id] /\ Own \subseteq Job /\ Free \notin Pool
  BY JobAssumption
<1>2. /\ running' \in [Pool -> Nat] /\ slot' \in [Id -> Pool \cup {Free}]
      /\ SlotsAccounted' /\ \A p \in Pool : running'[p] <= running[p]
  BY GiveBackCounts DEF SlotInv
<1>3. \A k \in Id : slot'[k] = IF k = i THEN Free ELSE slot[k]
  BY DEF GiveBack, TypeOK
<1>4. LiveCounted'
  BY DEF SlotInv, LiveCounted
<1>5. HolderInFlight'
  BY <1>1, <1>3 DEF SlotInv, HolderInFlight
<1>6. OwnHeld'
  BY <1>1, <1>3 DEF SlotInv, OwnHeld
<1>7. CapKept'
  BY <1>2, CapAssumption DEF SlotInv, CapKept, TypeOK
<1> QED
  BY <1>2, <1>4, <1>5, <1>6, <1>7 DEF SlotInv, SlotType, TypeOK

\* Phases may move as long as no launch begins or ends.
LEMMA PhaseKeeps ==
  ASSUME TypeOK, SlotInv, UNCHANGED <<slots, lives>>,
         phase' \in [Job -> Phase], InFlight' = InFlight, cancelled \subseteq cancelled',
         \A j \in Own : (phase'[j] = "running" /\ j \notin cancelled')
                          => phase[j] = "running" \/ slot[IdOf[j]] # Free
  PROVE  SlotInv' /\ SlotType'
<1>1. running' = running /\ slot' = slot /\ live' = live /\ active' = active
  BY DEF slots, lives
<1>2. SlotsAccounted' /\ CapKept' /\ LiveCounted'
  BY <1>1 DEF SlotInv, SlotsAccounted, CapKept, LiveCounted
<1>3. HolderInFlight' /\ OwnHeld'
  BY <1>1 DEF SlotInv, HolderInFlight, OwnHeld
<1> QED
  BY <1>1, <1>2, <1>3 DEF SlotInv, SlotType, TypeOK

LEMMA OverKeeps ==
  ASSUME TypeOK, SlotInv, NEW j \in Job, j \in InFlight, slot[IdOf[j]] = Free,
         LaunchOver(j), UNCHANGED <<slots, cancelled>>
  PROVE  SlotInv' /\ SlotType'
<1>1. running' = running /\ slot' = slot
  BY DEF slots
<1>2. LiveCounted' /\ live' \in Nat
  BY OverLive DEF SlotInv
<1>3. phase' \in [Job -> Phase] /\ phase'[j] = "over" /\ \A k \in Job \ {j} : phase'[k] = phase[k]
  BY DEF TypeOK, LaunchOver, Phase
<1>4. active' \in BOOLEAN
  BY DEF TypeOK, LaunchOver
<1>5. SlotsAccounted' /\ CapKept'
  BY <1>1 DEF SlotInv, SlotsAccounted, CapKept
<1>6. HolderInFlight'
  BY <1>1, <1>3 DEF SlotInv, HolderInFlight, InFlight
<1>7. OwnHeld'
  BY <1>1, <1>3, JobAssumption DEF SlotInv, OwnHeld
<1> QED
  BY <1>1, <1>2, <1>3, <1>4, <1>5, <1>6, <1>7 DEF SlotInv, SlotType, TypeOK
-----------------------------------------------------------------------------
(* Each action keeps the invariant.                                        *)

WorldType ==
  /\ cancelled \subseteq Job /\ conflicts \in [Job -> SUBSET (Id \cup Remote)] /\ gated \subseteq Job
  /\ backoff \in [Pool -> {"none", "rate", "quota"}]
  /\ pressure \in {"normal", "elevated", "high"} /\ broke \in BOOLEAN /\ worse \in 0..MaxWorse
  /\ toReport \subseteq Job /\ wall \subseteq Pool /\ call \in Call

LEMMA Parts ==
  /\ IInv <=> SlotInv /\ SlotType /\ WorldType /\ queue \in Seq(Job) /\ QueueShape /\ CallShape
  /\ IInv' <=> SlotInv' /\ SlotType' /\ WorldType' /\ (queue \in Seq(Job))' /\ QueueShape' /\ CallShape'
BY DEF IInv, TypeOK, SlotInv, SlotType, WorldType

LEMMA CallsDiffer ==
  /\ <<>> # <<"drain">>
  /\ \A j : <<"dispatch", j>> # <<>> /\ <<"dispatch", j>> # <<"drain">>
            /\ <<"close", j>> # <<>> /\ <<"close", j>> # <<"drain">>
  /\ \A j, k : <<"dispatch", j>> # <<"close", k>>
  /\ \A j, k : (<<"dispatch", j>> = <<"dispatch", k>> \/ <<"close", j>> = <<"close", k>>) => j = k
OBVIOUS

\* A call without a job of its own.
LEMMA PlainCall == call' \in {<<>>, <<"drain">>} => CallShape' /\ call' \in Call
BY CallsDiffer DEF CallShape, Call

\* A step that touches neither the queue nor a slot.
LEMMA QuietKeeps ==
  ASSUME IInv, UNCHANGED <<phase, queue, slots, lives>>, cancelled \subseteq cancelled',
         WorldType', CallShape'
  PROVE  IInv'
<1>1. InFlight' = InFlight /\ phase' \in [Job -> Phase]
  BY DEF InFlight, IInv, TypeOK
<1>2. SlotInv' /\ SlotType'
  BY <1>1, PhaseKeeps DEF IInv, TypeOK, SlotInv
<1>3. QueueShape' /\ (queue \in Seq(Job))'
  BY DEF IInv, TypeOK, QueueShape
<1> QED
  BY <1>2, <1>3, Parts

LEMMA QuietActions ==
  ASSUME IInv,
         \/ DrainReturns \/ Sweep \/ Worsen \/ PressureClears \/ BudgetRaised
         \/ \E j \in Job : Dispatch(j) \/ ReportQuotaExhausted(j) \/ Cancel(j)
         \/ \E p \in Pool : BackoffExpires(p) \/ WallFalls(p)
  PROVE  IInv'
<1> USE DEF places, slots, lives, world, quota
<1>1. CASE DrainReturns \/ Sweep
  <2>1. call' \in {<<>>, <<"drain">>}
    BY <1>1 DEF DrainReturns, Sweep
  <2>2. WorldType'
    BY <1>1, <2>1, PlainCall DEF DrainReturns, Sweep, WorldType, IInv, TypeOK
  <2> QED
    BY <1>1, <2>1, <2>2, PlainCall, QuietKeeps DEF DrainReturns, Sweep
<1>2. CASE Worsen \/ PressureClears \/ BudgetRaised
  <2>1. call' = <<>> /\ UNCHANGED <<phase, queue, slots, lives, cancelled>>
    BY <1>2 DEF Worsen, PressureClears, BudgetRaised
  <2>2. worse' \in 0..MaxWorse
    BY <1>2, CapAssumption DEF Worsen, PressureClears, BudgetRaised, IInv, TypeOK
  <2>3. broke' \in BOOLEAN /\ pressure' \in {"normal", "elevated", "high"}
    BY <1>2 DEF Worsen, PressureClears, BudgetRaised, IInv, TypeOK
  <2>4. WorldType'
    BY <1>2, <2>1, <2>2, <2>3, PlainCall
    DEF Worsen, PressureClears, BudgetRaised, WorldType, IInv, TypeOK
  <2> QED
    BY <2>1, <2>4, PlainCall, QuietKeeps
<1>3. ASSUME NEW j \in Job, ReportQuotaExhausted(j) \/ Cancel(j) PROVE IInv'
  <2>1. /\ call' = <<>> /\ UNCHANGED <<phase, queue, slots, lives>>
        /\ cancelled \subseteq cancelled'
    BY <1>3 DEF ReportQuotaExhausted, Cancel
  <2>2. WorldType'
    BY ZenonT(40), <1>3, <2>1, PlainCall, JobAssumption
    DEF ReportQuotaExhausted, Cancel, WorldType, IInv, TypeOK
  <2> QED
    BY <2>1, <2>2, PlainCall, QuietKeeps
<1>4. ASSUME NEW j \in Job, Dispatch(j) PROVE IInv'
  <2>1. call' = <<"dispatch", j>> /\ phase' = phase /\ phase[j] = "new"
    BY <1>4 DEF Dispatch
  <2>2. CallShape' /\ call' \in Call
    BY <2>1, CallsDiffer DEF CallShape, Call
  <2>3. WorldType'
    BY <1>4, <2>2 DEF Dispatch, WorldType, IInv, TypeOK
  <2> QED
    BY <1>4, <2>2, <2>3, QuietKeeps DEF Dispatch
<1>5. ASSUME NEW p \in Pool, BackoffExpires(p) \/ WallFalls(p) PROVE IInv'
  <2>1. call' = <<>> /\ UNCHANGED <<phase, queue, slots, lives, cancelled>>
    BY <1>5 DEF BackoffExpires, WallFalls
  <2>2. backoff' \in [Pool -> {"none", "rate", "quota"}]
    BY <1>5 DEF BackoffExpires, WallFalls, IInv, TypeOK
  <2>3. WorldType'
    BY <1>5, <2>1, <2>2, PlainCall DEF BackoffExpires, WallFalls, WorldType, IInv, TypeOK
  <2> QED
    BY <2>1, <2>3, PlainCall, QuietKeeps
<1> QED
  BY <1>1, <1>2, <1>3, <1>4, <1>5

\* The queue stays as it is while no phase leaves or becomes "queued".
LEMMA SameQueue ==
  ASSUME IInv, queue' = queue,
         \A j \in Job : phase[j] = "queued" => phase'[j] = "queued"
  PROVE  (queue \in Seq(Job))' /\ QueueShape'
<1>1. \A n \in DOMAIN queue : queue[n] \in Job
  BY DEF IInv, TypeOK
<1> QED
  BY <1>1 DEF IInv, TypeOK, QueueShape

LEMMA DrainLaunchKeeps == ASSUME IInv, UniqueIds, DrainLaunch PROVE IInv'
<1>1. PICK j \in Job : IsPicked(j) /\ LaunchNow(j) /\ queue' = RemoveAt(queue, Position(j))
                      /\ gated' = gated \ {j} /\ conflicts' = [conflicts EXCEPT ![j] = {}]
  BY DEF DrainLaunch
<1>2. call' = call /\ cancelled' = cancelled /\ UNCHANGED <<world, quota>>
  BY DEF DrainLaunch
<1>3. j \in Range(queue) /\ CanLaunch(j)
  BY <1>1 DEF IsPicked, Eligible
<1>4. phase[j] = "queued"
  BY <1>3 DEF IInv, QueueShape, Range
<1>5. SlotInv' /\ SlotType'
  BY <1>1, <1>2, <1>3, <1>4, LaunchKeeps DEF IInv, SlotInv, InFlight
<1>6. phase' = [phase EXCEPT ![j] = "running"]
  BY <1>1 DEF LaunchNow
<1>7. (queue \in Seq(Job))' /\ QueueShape'
  BY <1>1, <1>3, <1>6, DequeueShape DEF IInv, TypeOK
<1>8. CallShape'
  <2> SUFFICES ASSUME NEW k \in Job
               PROVE  /\ call = <<"dispatch", k>> => phase'[k] = "new"
                      /\ call = <<"close", k>> => phase'[k] = "closing" /\ slot'[IdOf[k]] = Free
    BY <1>2 DEF CallShape
  <2>1. k # j => phase'[k] = phase[k] /\ slot'[IdOf[k]] = slot[IdOf[k]]
    BY <1>1, JobAssumption DEF LaunchNow, UniqueIds, IInv, TypeOK
  <2> QED
    BY <1>4, <2>1 DEF IInv, CallShape
<1>9. WorldType'
  BY <1>1, <1>2 DEF WorldType, IInv, TypeOK, world, quota
<1> QED
  BY <1>5, <1>7, <1>8, <1>9, Parts

\* dispatch launches at once, with or without a conflict check.
LEMMA DirectLaunchKeeps ==
  ASSUME IInv, UniqueIds, NEW j \in Job, phase[j] \in {"new", "checking"}, CanLaunch(j), LaunchNow(j),
         call' = <<>>, UNCHANGED <<queue, conflicts, gated, world, quota, cancelled>>
  PROVE  IInv'
<1>1. SlotInv' /\ SlotType'
  BY LaunchKeeps DEF IInv, SlotInv, InFlight
<1>2. \A k \in Job : phase[k] = "queued" => phase'[k] = "queued"
  BY DEF LaunchNow, IInv, TypeOK
<1>3. (queue \in Seq(Job))' /\ QueueShape'
  BY <1>2, SameQueue
<1>4. CallShape' /\ WorldType'
  BY PlainCall DEF WorldType, IInv, TypeOK, world, quota
<1> QED
  BY <1>1, <1>3, <1>4, Parts

LEMMA EnqueueKeeps ==
  ASSUME IInv, NEW j \in Job, phase[j] \in {"new", "checking"},
         NEW ids \in SUBSET (Id \cup Remote), NEW b \in BOOLEAN, Enqueue(j, ids, b),
         call' = <<>>, UNCHANGED <<slots, lives, world, quota, cancelled>>
  PROVE  IInv'
<1>1. phase' = [phase EXCEPT ![j] = "queued"] /\ queue' = Append(queue, j)
  BY DEF Enqueue
<1>2. phase' \in [Job -> Phase] /\ InFlight' = InFlight /\ \A k \in Job \ {j} : phase'[k] = phase[k]
  BY <1>1 DEF IInv, TypeOK, Phase, InFlight
<1>3. SlotInv' /\ SlotType'
  <2>1. \A k \in Own : phase'[k] = "running" => phase[k] = "running"
    BY <1>1, JobAssumption DEF IInv, TypeOK
  <2> QED
    BY <1>2, <2>1, PhaseKeeps DEF IInv, SlotInv
<1>4. (queue \in Seq(Job))' /\ QueueShape'
  <2>1. /\ queue \in Seq(Job) /\ queue' \in Seq(Job) /\ Len(queue') = Len(queue) + 1
        /\ queue'[Len(queue) + 1] = j /\ \A n \in 1..Len(queue) : queue'[n] = queue[n]
    BY <1>1 DEF IInv, TypeOK
  <2>2. \A n \in 1..Len(queue) : queue[n] \in Job /\ queue[n] # j /\ phase'[queue[n]] = "queued"
    BY <1>2, <2>1 DEF IInv, QueueShape
  <2>3. phase'[j] = "queued"
    BY <1>1 DEF IInv, TypeOK
  <2>4. \A n \in DOMAIN queue' : phase'[queue'[n]] = "queued"
    BY <2>1, <2>2, <2>3
  <2>5. \A m, n \in DOMAIN queue' : queue'[m] = queue'[n] => m = n
    BY <2>1, <2>2 DEF IInv, QueueShape
  <2> QED
    BY <2>1, <2>4, <2>5 DEF QueueShape
<1>5. conflicts' \in [Job -> SUBSET (Id \cup Remote)] /\ gated' \subseteq Job
  BY DEF Enqueue, IInv, TypeOK
<1>6. CallShape' /\ WorldType'
  BY <1>5, PlainCall DEF WorldType, IInv, TypeOK, world, quota
<1> QED
  BY <1>3, <1>4, <1>6, Parts

\* A job changes its phase and nothing begins, ends, or moves in the queue.
LEMMA MoveKeeps ==
  ASSUME IInv, NEW j \in Job, NEW to \in Phase \ {"running"}, phase' = [phase EXCEPT ![j] = to],
         phase[j] # "queued", InFlight' = InFlight, call' = <<>>,
         UNCHANGED <<queue, slots, lives, cancelled>>, WorldType'
  PROVE  IInv'
<1>1. phase' \in [Job -> Phase] /\ phase'[j] = to /\ \A k \in Job \ {j} : phase'[k] = phase[k]
  BY DEF IInv, TypeOK
<1>2. SlotInv' /\ SlotType'
  <2>1. \A k \in Own : phase'[k] = "running" => phase[k] = "running"
    BY <1>1, JobAssumption
  <2> QED
    BY <1>1, <2>1, PhaseKeeps DEF IInv, SlotInv
<1>3. (queue \in Seq(Job))' /\ QueueShape'
  BY <1>1, SameQueue
<1> QED
  BY <1>2, <1>3, PlainCall, Parts

LEMMA DispatchKeeps ==
  ASSUME IInv, UniqueIds, NEW j \in Job,
         DispatchLaunches(j) \/ DispatchEnqueues(j) \/ DispatchChecks(j) \/ CheckReturns(j)
  PROVE  IInv'
<1>1. Gate(j) => phase[j] = "new" /\ call' = <<>>
  BY DEF Gate, IInv, CallShape
<1>2. CASE DispatchLaunches(j)
  BY <1>1, <1>2, DirectLaunchKeeps DEF DispatchLaunches
<1>3. CASE DispatchEnqueues(j)
  <2>1. OverBudget(j) \in BOOLEAN
    BY DEF OverBudget
  <2> QED
    BY <1>1, <1>3, <2>1, EnqueueKeeps DEF DispatchEnqueues
<1>4. CASE DispatchChecks(j)
  <2>1. phase[j] = "new" /\ call' = <<>> /\ phase' = [phase EXCEPT ![j] = "checking"]
    BY <1>1, <1>4 DEF DispatchChecks
  <2>2. InFlight' = InFlight
    BY <2>1 DEF InFlight, IInv, TypeOK
  <2>3. conflicts' \in [Job -> SUBSET (Id \cup Remote)]
    BY <1>4 DEF DispatchChecks, RunningIds, IInv, TypeOK
  <2>4. WorldType'
    BY <1>4, <2>1, <2>3, PlainCall DEF DispatchChecks, WorldType, IInv, TypeOK, world, quota
  <2> QED
    BY <1>4, <2>1, <2>2, <2>4, MoveKeeps DEF DispatchChecks, Phase
<1>5. CASE CheckReturns(j)
  <2>1. phase[j] = "checking" /\ call' = <<>> /\ UNCHANGED <<world, quota, cancelled>>
    BY <1>5 DEF CheckReturns
  <2>2. CASE conflicts[j] # {} \/ ~CanLaunch(j)
    <3>1. Enqueue(j, conflicts[j], FALSE) /\ UNCHANGED <<slots, lives>>
      BY <1>5, <2>2 DEF CheckReturns
    <3>2. conflicts[j] \in SUBSET (Id \cup Remote)
      BY DEF IInv, TypeOK
    <3> QED
      BY <2>1, <3>1, <3>2, EnqueueKeeps
  <2>3. CASE ~(conflicts[j] # {} \/ ~CanLaunch(j))
    BY <1>5, <2>1, <2>3, DirectLaunchKeeps DEF CheckReturns
  <2> QED
    BY <2>2, <2>3
<1> QED
  BY <1>2, <1>3, <1>4, <1>5

LEMMA LeaveRunningKeeps == ASSUME IInv, UniqueIds, NEW j \in Job, LeaveRunning(j) PROVE IInv'
<1>1. /\ call = <<>> /\ phase[j] = "running" /\ phase' = [phase EXCEPT ![j] = "tail"]
      /\ toReport' \subseteq Job
      /\ UNCHANGED <<queue, conflicts, gated, lives, world, backoff, wall, cancelled>>
  BY DEF LeaveRunning, IInv, TypeOK
<1>2. InFlight' = InFlight
  BY <1>1 DEF InFlight, IInv, TypeOK
<1>3. ASSUME call' \in {<<>>, <<"drain">>} PROVE WorldType'
  BY <1>1, <1>3, PlainCall DEF WorldType, IInv, TypeOK, world
<1>4. CASE j \in Own /\ slot[IdOf[j]] # Free
  <2>1. GiveBack(IdOf[j]) /\ call' = <<"drain">>
    BY <1>4 DEF LeaveRunning, Release
  <2>2. phase' \in [Job -> Phase] /\ IdOf[j] \in Id
    BY <1>1, JobAssumption DEF IInv, TypeOK, Phase
  <2>3. \A k \in Own : phase'[k] = "running" => phase[k] = "running" /\ IdOf[k] # IdOf[j]
    BY <1>1, JobAssumption DEF IInv, TypeOK, UniqueIds
  <2>4. SlotInv' /\ SlotType'
    BY <1>1, <1>2, <1>4, <2>1, <2>2, <2>3, GiveBackKeeps DEF IInv, SlotInv, lives
  <2>5. \A k \in Job : phase[k] = "queued" => phase'[k] = "queued"
    BY <1>1 DEF IInv, TypeOK
  <2>6. (queue \in Seq(Job))' /\ QueueShape'
    BY <1>1, <2>5, SameQueue
  <2> QED
    BY <1>3, <2>1, <2>4, <2>6, PlainCall, Parts
<1>5. CASE ~(j \in Own /\ slot[IdOf[j]] # Free)
  <2>1. UNCHANGED <<slots, call>>
    BY <1>5 DEF LeaveRunning, Release
  <2> QED
    BY <1>1, <1>2, <1>3, <2>1, MoveKeeps DEF Phase
<1> QED
  BY <1>4, <1>5

LEMMA SettleKeeps == ASSUME IInv, NEW j \in Job, Settle(j) PROVE IInv'
<1>1. /\ call = <<>> /\ phase[j] \in {"tail", "running"} /\ phase' = [phase EXCEPT ![j] = "closing"]
      /\ UNCHANGED <<queue, conflicts, gated, slots, lives, world, toReport, wall, cancelled, call>>
  BY DEF Settle
<1>2. InFlight' = InFlight
  BY <1>1 DEF InFlight, IInv, TypeOK
<1>3. backoff' \in [Pool -> {"none", "rate", "quota"}]
  BY DEF Settle, IInv, TypeOK
<1>4. WorldType'
  BY <1>1, <1>3 DEF WorldType, IInv, TypeOK, world
<1> QED
  BY <1>1, <1>2, <1>4, MoveKeeps DEF Phase

\* .finally and the reconcile timer give a slot back and move no phase.
LEMMA ReleaseKeeps ==
  ASSUME IInv, UniqueIds, NEW i \in Id, slot[i] # Free, GiveBack(i),
         UNCHANGED <<places, lives, world, quota, cancelled>>, CallShape', call' \in Call,
         \A j \in Own : (phase[j] = "running" /\ j \notin cancelled) => IdOf[j] # i
  PROVE  IInv'
<1>1. phase' = phase /\ queue' = queue /\ phase' \in [Job -> Phase] /\ InFlight' = InFlight
  BY DEF places, InFlight, IInv, TypeOK
<1>2. SlotInv' /\ SlotType'
  BY <1>1, GiveBackKeeps DEF IInv, SlotInv, lives
<1>3. (queue \in Seq(Job))' /\ QueueShape'
  BY <1>1, SameQueue
<1>4. WorldType'
  BY DEF WorldType, IInv, TypeOK, places, world, quota
<1> QED
  BY <1>2, <1>3, <1>4, Parts

LEMMA FinallyReleasesKeeps == ASSUME IInv, UniqueIds, NEW j \in Job, FinallyReleases(j) PROVE IInv'
<1>1. /\ phase[j] = "closing" /\ slot[IdOf[j]] # Free /\ GiveBack(IdOf[j]) /\ call' = <<"close", j>>
      /\ UNCHANGED <<places, lives, world, quota, cancelled>>
  BY DEF FinallyReleases
<1>2. IdOf[j] \in Id
  BY JobAssumption
<1>3. slot'[IdOf[j]] = Free /\ phase' = phase
  BY <1>1, <1>2 DEF GiveBack, IInv, TypeOK, places
<1>4. CallShape' /\ call' \in Call
  BY <1>1, <1>3, CallsDiffer DEF CallShape, Call
<1>5. \A k \in Own : phase[k] = "running" => IdOf[k] # IdOf[j]
  BY <1>1, JobAssumption DEF UniqueIds
<1> QED
  BY <1>1, <1>2, <1>4, <1>5, ReleaseKeeps

LEMMA ReconcileKeeps == ASSUME IInv, UniqueIds, NEW i \in Id, Reconcile(i) PROVE IInv'
<1>1. /\ slot[i] # Free /\ GiveBack(i) /\ call' = <<"drain">> /\ ~StillListed(i)
      /\ UNCHANGED <<places, lives, world, quota, cancelled>>
  BY DEF Reconcile
<1>2. \A j \in Own : (phase[j] = "running" /\ j \notin cancelled) => IdOf[j] # i
  BY <1>1 DEF StillListed
<1> QED
  BY <1>1, <1>2, PlainCall, ReleaseKeeps

LEMMA FinallyEndsKeeps == ASSUME IInv, UniqueIds, NEW j \in Job, FinallyEnds(j) PROVE IInv'
<1>1. /\ LaunchOver(j) /\ call' = <<>>
      /\ UNCHANGED <<queue, conflicts, gated, slots, world, quota, cancelled>>
  BY DEF FinallyEnds
<1>2. phase[j] = "closing" /\ slot[IdOf[j]] = Free
  BY DEF FinallyEnds, IInv, CallShape
<1>3. SlotInv' /\ SlotType'
  BY <1>1, <1>2, OverKeeps DEF IInv, SlotInv, InFlight
<1>4. \A k \in Job : phase[k] = "queued" => phase'[k] = "queued"
  BY <1>1, <1>2 DEF LaunchOver, IInv, TypeOK
<1>5. (queue \in Seq(Job))' /\ QueueShape'
  BY <1>1, <1>4, SameQueue
<1>6. WorldType'
  BY <1>1, PlainCall DEF WorldType, IInv, TypeOK, world, quota
<1> QED
  BY <1>1, <1>3, <1>5, <1>6, PlainCall, Parts
-----------------------------------------------------------------------------
(* The theorems.                                                           *)

LEMMA InitHolds == Init => IInv
<1> SUFFICES ASSUME Init PROVE IInv
  OBVIOUS
<1>1. /\ phase = [j \in Job |-> "new"] /\ cancelled = {} /\ queue = <<>>
      /\ conflicts = [j \in Job |-> {}] /\ gated = {}
      /\ running = [p \in Pool |-> 0] /\ slot = [i \in Id |-> Free]
      /\ live = 0 /\ active = FALSE /\ call = <<>>
  BY DEF Init
<1>2. InFlight = {} /\ Cardinality({}) = 0
  BY <1>1, FS_EmptySet DEF InFlight
<1>3. \A p \in Pool : {i \in Id : slot[i] = p} = {}
  BY <1>1, JobAssumption
<1>4. SlotsAccounted /\ LiveCounted
  BY <1>1, <1>2, <1>3 DEF SlotsAccounted, LiveCounted
<1>5. HolderInFlight /\ OwnHeld
  BY <1>1, JobAssumption DEF HolderInFlight, OwnHeld
<1>6. CapKept
  BY <1>1, CapAssumption DEF CapKept
<1>7. QueueShape /\ CallShape
  BY <1>1, CallsDiffer DEF QueueShape, CallShape
<1>8. SlotType /\ WorldType /\ queue \in Seq(Job)
  <2>1. SlotType
    BY <1>1 DEF SlotType, Phase
  <2>2. 0 \in 0..MaxWorse
    BY CapAssumption
  <2>3. WorldType
    BY <1>1, <2>2 DEF Init, WorldType, Call
  <2> QED
    BY <1>1, <2>1, <2>3
<1> QED
  BY <1>4, <1>5, <1>6, <1>7, <1>8, Parts DEF SlotInv

LEMMA NextKeeps == UniqueIds /\ IInv /\ [Next]_vars => IInv'
<1> SUFFICES ASSUME UniqueIds, IInv, [Next]_vars PROVE IInv'
  OBVIOUS
<1>1. CASE UNCHANGED vars
  <2>1. UNCHANGED <<phase, queue, slots, lives, cancelled>> /\ call' = call
    BY <1>1 DEF vars, places
  <2>2. CallShape' /\ WorldType'
    BY <1>1, <2>1 DEF vars, places, slots, world, quota, CallShape, WorldType, IInv, TypeOK
  <2> QED
    BY <2>1, <2>2, QuietKeeps
<1>2. CASE DrainLaunch
  BY <1>2, DrainLaunchKeeps
<1>3. CASE DrainReturns \/ Sweep \/ Worsen \/ PressureClears \/ BudgetRaised
  BY <1>3, QuietActions
<1>4. ASSUME NEW j \in Job, DispatchStep(j) PROVE IInv'
  BY <1>4, QuietActions, DispatchKeeps DEF DispatchStep
<1>5. ASSUME NEW j \in Job, MissionStep(j) PROVE IInv'
  BY <1>5, LeaveRunningKeeps, QuietActions, SettleKeeps, FinallyReleasesKeeps, FinallyEndsKeeps
  DEF MissionStep
<1>6. ASSUME NEW i \in Id, Reconcile(i) PROVE IInv'
  BY <1>6, ReconcileKeeps
<1>7. ASSUME NEW p \in Pool, BackoffExpires(p) \/ WallFalls(p) PROVE IInv'
  BY <1>7, QuietActions
<1> QED
  BY <1>1, <1>2, <1>3, <1>4, <1>5, <1>6, <1>7 DEF Next

\* The inductive invariant of the scheduler.
THEOREM SlotInvariant == ASSUME UniqueIds PROVE Spec => []IInv
<1>1. UniqueIds
  OBVIOUS
<1> QED
  BY <1>1, InitHolds, NextKeeps, PTL DEF Spec

\* Types of the scheduler's state.
THEOREM SlotTypes == ASSUME UniqueIds PROVE Spec => []TypeOK
<1>1. IInv => TypeOK
  BY DEF IInv
<1> QED
  BY <1>1, SlotInvariant, PTL

\* The count of a pool in _running is the number of mission ids that hold a
\* slot of it, whichever of the three releases frees them (releaseMissionSlot).
THEOREM SlotsCounted == ASSUME UniqueIds PROVE Spec => []SlotsAccounted
<1>1. IInv => SlotsAccounted
  BY DEF IInv
<1> QED
  BY <1>1, SlotInvariant, PTL

\* Rust hears that missions are active exactly while a launch is in flight
\* (notifyMissionsActive).
THEOREM ActiveTold == ASSUME UniqueIds PROVE Spec => []ActiveHonest
<1>1. IInv => ActiveHonest
  BY Finite, FS_EmptySet DEF IInv, LiveCounted, ActiveHonest
<1> QED
  BY <1>1, SlotInvariant, PTL

\* The missions at work in a pool hold slots of their own, so that there are
\* no more of them than the pool's cap (canLaunch).
LEMMA WorkWithinCap == UniqueIds /\ IInv => PoolCapKept
<1> SUFFICES ASSUME UniqueIds, IInv, NEW p \in Pool PROVE Cardinality(Working(p)) <= PoolCap[p]
  BY DEF PoolCapKept
<1> DEFINE held == {i \in Id : slot[i] = p}
           ids  == [j \in Working(p) |-> IdOf[j]]
<1>1. \A j \in Working(p) : j \in Job /\ IdOf[j] \in held
  BY JobAssumption DEF Working, IInv, OwnHeld, HolderInFlight
<1>2. ids \in Injection(Working(p), held)
  BY <1>1 DEF UniqueIds, Injection, IsInjective
<1>3. IsFiniteSet(held) /\ running[p] = Cardinality(held)
  BY Finite DEF IInv, SlotsAccounted
<1>4. Cardinality(Working(p)) <= Cardinality(held)
  BY <1>2, <1>3, FS_Injection
<1>5. /\ running[p] <= PoolCap[p] /\ running[p] \in Nat /\ PoolCap[p] \in Nat
  BY CapAssumption DEF IInv, CapKept, TypeOK
<1>6. Cardinality(Working(p)) \in Nat
  <2>1. Working(p) \in SUBSET Job /\ IsFiniteSet(Job)
    BY JobAssumption DEF Working
  <2> QED
    BY <2>1, FS_Subset, FS_CardinalityType
<1> QED
  BY <1>3, <1>4, <1>5, <1>6

\* No pool ever has more missions of the loaded project at work than its cap,
\* in spite of early releases, the reconcile timer and foreign missions.
THEOREM PoolCapsKept == ASSUME UniqueIds PROVE Spec => []PoolCapKept
<1>1. UniqueIds
  OBVIOUS
<1> QED
  BY <1>1, WorkWithinCap, SlotInvariant, PTL
-----------------------------------------------------------------------------
(* The global cap.                                                         *)

LEMMA RunningFinite == IsFiniteSet(RunningIds) /\ Cardinality(RunningIds) \in Nat
<1>1. RunningIds \in SUBSET Id /\ IsFiniteSet(Id)
  BY JobAssumption DEF RunningIds
<1> QED
  BY <1>1, FS_Subset, FS_CardinalityType

\* The sum of the counts is the number of ids that hold a slot.
LEMMA TotalIsHeld ==
  ASSUME TypeOK, SlotsAccounted
  PROVE  TotalRunning = Cardinality(RunningIds)
<1> DEFINE held(p) == {i \in Id : slot[i] = p}
           B(p)    == CHOOSE b : b \in Bijection(1..running[p], held(p))
           pairs   == UNION {{p} \X (1..running[p]) : p \in Pool}
           f       == [x \in pairs |-> B(x[1])[x[2]]]
<1>1. ASSUME NEW p \in Pool PROVE B(p) \in Bijection(1..running[p], held(p))
  <2>1. IsFiniteSet(held(p)) /\ running[p] = Cardinality(held(p)) /\ running[p] \in Nat
    BY Finite DEF SlotsAccounted, TypeOK
  <2>2. IsFiniteSet(1..running[p]) /\ Cardinality(1..running[p]) = running[p]
    BY <2>1, FS_Interval
  <2>3. ExistsBijection(1..running[p], held(p))
    <3> DEFINE S == 1..running[p]
               T == held(p)
    <3>1. IsFiniteSet(S) /\ IsFiniteSet(T) /\ Cardinality(S) = Cardinality(T)
      BY <2>1, <2>2
    <3> HIDE DEF S, T
    <3>2. ExistsBijection(S, T)
      BY <3>1, FS_SameCardinalityBij
    <3> QED
      BY <3>2 DEF S, T
  <2> QED
    BY <2>3 DEF ExistsBijection
<1> HIDE DEF B
<1>2. \A x \in pairs : x[1] \in Pool /\ x[2] \in 1..running[x[1]] /\ x = <<x[1], x[2]>>
  OBVIOUS
<1>3. \A p \in Pool : \A k \in 1..running[p] : <<p, k>> \in pairs
  OBVIOUS
<1> HIDE DEF pairs
<1>4. ASSUME NEW p \in Pool
      PROVE  /\ \A k \in 1..running[p] : B(p)[k] \in Id /\ slot[B(p)[k]] = p
             /\ \A k, l \in 1..running[p] : B(p)[k] = B(p)[l] => k = l
             /\ \A i \in held(p) : \E k \in 1..running[p] : B(p)[k] = i
  <2> DEFINE b == B(p)
             S == 1..running[p]
             T == held(p)
  <2>1. b \in Bijection(S, T)
    BY <1>1
  <2> HIDE DEF b, S, T
  <2>2. /\ b \in [S -> T] /\ \A k, l \in S : b[k] = b[l] => k = l
        /\ \A i \in T : \E k \in S : b[k] = i
    BY <2>1 DEF Bijection, Injection, Surjection, IsInjective
  <2> QED
    BY <2>2 DEF b, S, T
<1>5. f \in [pairs -> RunningIds]
  BY <1>2, <1>4, JobAssumption DEF RunningIds
<1>6. \A x, y \in pairs : f[x] = f[y] => x = y
  <2> SUFFICES ASSUME NEW x \in pairs, NEW y \in pairs, f[x] = f[y] PROVE x = y
    OBVIOUS
  <2>1. slot[f[x]] = x[1] /\ slot[f[y]] = y[1]
    BY <1>2, <1>4
  <2>2. x[1] = y[1] /\ x[2] = y[2]
    BY <1>2, <1>4, <2>1
  <2> QED
    BY <1>2, <2>2
<1>7. \A i \in RunningIds : \E x \in pairs : f[x] = i
  <2> SUFFICES ASSUME NEW i \in RunningIds PROVE \E x \in pairs : f[x] = i
    OBVIOUS
  <2>1. slot[i] \in Pool /\ i \in held(slot[i])
    BY DEF RunningIds, TypeOK
  <2>2. PICK k \in 1..running[slot[i]] : B(slot[i])[k] = i
    BY <1>4, <2>1
  <2>3. <<slot[i], k>> \in pairs /\ f[<<slot[i], k>>] = i
    BY <1>3, <2>1, <2>2
  <2> QED
    BY <2>3
<1> HIDE DEF f
<1>8. f \in Injection(pairs, RunningIds) /\ f \in Surjection(pairs, RunningIds)
  BY <1>5, <1>6, <1>7 DEF Injection, Surjection, IsInjective
<1>9. Cardinality(pairs) = Cardinality(RunningIds)
  BY <1>8, RunningFinite, FS_Injection
<1> QED
  BY <1>9 DEF TotalRunning, pairs

\* What a step does to the slots: nothing, one launch, or one release.
LEMMA SlotSteps ==
  [Next]_vars => \/ UNCHANGED slot
                 \/ \E j \in Job : CanLaunch(j) /\ LaunchNow(j)
                 \/ \E i \in Id : GiveBack(i)
<1> SUFFICES ASSUME [Next]_vars, slot' # slot
             PROVE  \/ \E j \in Job : CanLaunch(j) /\ LaunchNow(j)
                    \/ \E i \in Id : GiveBack(i)
  OBVIOUS
<1>1. CASE DrainLaunch
  BY <1>1 DEF DrainLaunch, IsPicked, Eligible
<1>2. ASSUME NEW j \in Job, DispatchStep(j)
      PROVE  CanLaunch(j) /\ LaunchNow(j)
  BY <1>2 DEF DispatchStep, Dispatch, DispatchLaunches, DispatchEnqueues, DispatchChecks, CheckReturns, slots
<1>3. ASSUME NEW j \in Job, MissionStep(j)
      PROVE  GiveBack(IdOf[j])
  BY <1>3 DEF MissionStep, LeaveRunning, Release, ReportQuotaExhausted, Settle, FinallyReleases, FinallyEnds,
              Cancel, slots
<1>4. ASSUME NEW i \in Id, Reconcile(i) PROVE GiveBack(i)
  BY <1>4 DEF Reconcile
<1> QED
  BY <1>1, <1>2, <1>3, <1>4, JobAssumption
     DEF Next, vars, slots, DrainReturns, Sweep, Worsen, PressureClears, BudgetRaised, BackoffExpires, WallFalls

LEMMA NextGlobal == GlobalCap # 0 /\ IInv /\ GlobalKept /\ [Next]_vars => GlobalKept'
<1> SUFFICES ASSUME GlobalCap # 0, IInv, GlobalKept, [Next]_vars PROVE GlobalKept'
  OBVIOUS
<1> USE DEF IInv, TypeOK
<1>0. IsFiniteSet(RunningIds) /\ Cardinality(RunningIds) \in Nat /\ GlobalCap \in Nat
  BY RunningFinite, CapAssumption
<1>1. CASE UNCHANGED slot
  BY <1>1 DEF GlobalKept, RunningIds
<1>2. ASSUME NEW j \in Job, CanLaunch(j), LaunchNow(j) PROVE GlobalKept'
  <2>1. TotalRunning = Cardinality(RunningIds)
    BY TotalIsHeld
  <2>2. Cardinality(RunningIds) < GlobalCap
    <3>1. Cardinality(RunningIds) < CapFor(j)
      BY <1>2, <2>1 DEF CanLaunch
    <3>2. CapFor(j) = Cardinality(RunningIds) \/ CapFor(j) \in 1..GlobalCap
      BY <1>0, <2>1 DEF CapFor, AdjustedCap
    <3> QED
      BY <1>0, <3>1, <3>2
  <2>3. RunningIds' = RunningIds \cup {IdOf[j]}
    BY <1>2, JobAssumption DEF LaunchNow, RunningIds
  <2>4. Cardinality(RunningIds \cup {IdOf[j]}) \in {Cardinality(RunningIds), Cardinality(RunningIds) + 1}
    <3>1. IsFiniteSet(RunningIds)
      BY <1>0
    <3>2. Cardinality(RunningIds \cup {IdOf[j]})
            = IF IdOf[j] \in RunningIds THEN Cardinality(RunningIds) ELSE Cardinality(RunningIds) + 1
      BY <3>1, FS_AddElement, Zenon
    <3> QED
      BY <3>2
  <2> QED
    BY <1>0, <2>2, <2>3, <2>4 DEF GlobalKept
<1>3. ASSUME NEW i \in Id, GiveBack(i) PROVE GlobalKept'
  <2>1. RunningIds' \subseteq RunningIds
    BY <1>3 DEF GiveBack, RunningIds
  <2>2. Cardinality(RunningIds') <= Cardinality(RunningIds) /\ IsFiniteSet(RunningIds')
    BY <1>0, <2>1, FS_Subset
  <2>3. Cardinality(RunningIds') \in Nat
    BY <2>2, FS_CardinalityType
  <2> QED
    BY <1>0, <2>2, <2>3 DEF GlobalKept
<1> QED
  BY <1>1, <1>2, <1>3, SlotSteps

\* Missions at work hold slots of their own, whatever their pool.
LEMMA WorkWithinGlobal == UniqueIds /\ IInv /\ GlobalKept => GlobalCapKept
<1> SUFFICES ASSUME UniqueIds, IInv, GlobalKept PROVE GlobalCapKept
  OBVIOUS
<1> DEFINE work == UNION {Working(p) : p \in Pool}
           ids  == [j \in work |-> IdOf[j]]
<1>1. \A j \in work : j \in Job /\ IdOf[j] \in RunningIds
  BY JobAssumption DEF Working, IInv, OwnHeld, RunningIds
<1>2. ids \in Injection(work, RunningIds)
  BY <1>1 DEF UniqueIds, Injection, IsInjective
<1>3. Cardinality(work) <= Cardinality(RunningIds)
  BY <1>2, RunningFinite, FS_Injection
<1>4. Cardinality(work) \in Nat
  <2>1. work \in SUBSET Job /\ IsFiniteSet(Job)
    BY <1>1, JobAssumption
  <2> QED
    BY <2>1, FS_Subset, FS_CardinalityType
<1> QED
  BY <1>3, <1>4, RunningFinite, CapAssumption DEF GlobalKept, GlobalCapKept

\* Never more missions of the loaded project at work, over all pools, than the
\* global cap: LazyBots, which no pressure throttles, count too, and neither
\* the floor of one under elevated pressure nor early releases undo it.  (With
\* a cap of 0 the floor of one would: pressureAdjustedGlobalCap.)
THEOREM GlobalCapHolds ==
  ASSUME UniqueIds, GlobalCap # 0
  PROVE  Spec => []GlobalCapKept
<1>0. UniqueIds /\ GlobalCap # 0
  OBVIOUS
<1>1. Init => GlobalKept
  <2> SUFFICES ASSUME Init PROVE GlobalKept
    OBVIOUS
  <2>1. RunningIds = {}
    BY DEF Init, RunningIds
  <2> QED
    BY <2>1, FS_EmptySet, CapAssumption DEF GlobalKept
<1>2. GlobalCap # 0 /\ IInv /\ GlobalKept /\ [Next]_vars => GlobalKept'
  BY NextGlobal
<1>3. UniqueIds /\ IInv /\ GlobalKept => GlobalCapKept
  BY WorkWithinGlobal
<1> QED
  BY <1>0, <1>1, <1>2, <1>3, SlotInvariant, PTL DEF Spec

-----------------------------------------------------------------------------
(* The order of launches.                                                  *)

PhaseShape == phase \in [Job -> Phase] /\ CheckShape

\* A mission that begins to run is taken by a drain, launched by its dispatch,
\* or comes from its conflict check.
LEMMA LaunchSteps ==
  ASSUME PhaseShape, [Next]_vars, NEW j \in Job, Launches(j)
  PROVE  \/ IsPicked(j)
         \/ Drained /\ CanLaunch(j)
         \/ j \in Checked
<1> USE DEF PhaseShape, Launches, places
<1>1. ASSUME NEW k \in Job, LaunchNow(k) PROVE k = j
  BY <1>1 DEF LaunchNow
<1>2. CASE DrainLaunch
  BY <1>1, <1>2 DEF DrainLaunch
<1>3. ASSUME NEW k \in Job, DispatchStep(k)
      PROVE  (Drained /\ CanLaunch(j)) \/ j \in Checked
  <2>1. CASE DispatchLaunches(k)
    BY <1>1, <2>1 DEF DispatchLaunches, Gate
  <2>2. CASE CheckReturns(k)
    <3>1. k \in Checked
      BY <2>2 DEF CheckReturns, CheckShape
    <3>2. \A l \in Job : phase'[l] = "running" => phase[l] = "running" \/ l = k
      BY <2>2 DEF CheckReturns, LaunchNow, Enqueue
    <3> QED
      BY <3>1, <3>2
  <2>3. CASE Dispatch(k) \/ DispatchEnqueues(k) \/ DispatchChecks(k)
    BY <2>3 DEF Dispatch, DispatchEnqueues, DispatchChecks, Enqueue
  <2> QED
    BY <1>3, <2>1, <2>2, <2>3 DEF DispatchStep
<1>4. ASSUME NEW k \in Job, MissionStep(k) PROVE FALSE
  BY <1>4 DEF MissionStep, LeaveRunning, ReportQuotaExhausted, Settle, FinallyReleases, FinallyEnds, Cancel,
              LaunchOver
<1>5. CASE UNCHANGED phase
  BY <1>5
<1> QED
  BY <1>2, <1>3, <1>4, <1>5
     DEF Next, vars, DrainReturns, Sweep, Reconcile, Worsen, PressureClears, BudgetRaised,
         BackoffExpires, WallFalls

LEMMA NextPhase == PhaseShape /\ [Next]_vars => PhaseShape'
<1> SUFFICES ASSUME PhaseShape, [Next]_vars PROVE PhaseShape'
  OBVIOUS
<1> USE DEF PhaseShape, CheckShape, Phase, places
<1>1. ASSUME NEW j \in Job, LaunchNow(j) PROVE PhaseShape'
  BY <1>1 DEF LaunchNow
<1>2. CASE DrainLaunch
  BY <1>1, <1>2 DEF DrainLaunch
<1>3. ASSUME NEW j \in Job, DispatchStep(j) PROVE PhaseShape'
  BY <1>1, <1>3
     DEF DispatchStep, Dispatch, DispatchLaunches, DispatchEnqueues, DispatchChecks, CheckReturns, Enqueue
<1>4. ASSUME NEW j \in Job, MissionStep(j) PROVE PhaseShape'
  BY <1>4 DEF MissionStep, LeaveRunning, ReportQuotaExhausted, Settle, FinallyReleases, FinallyEnds, Cancel,
              LaunchOver
<1>5. CASE UNCHANGED phase
  BY <1>5
<1> QED
  BY <1>2, <1>3, <1>4, <1>5
     DEF Next, vars, DrainReturns, Sweep, Reconcile, Worsen, PressureClears, BudgetRaised,
         BackoffExpires, WallFalls

\* What may be launched in a pool does not depend on who is first in line.
LEMMA SameGate ==
  ASSUME NEW j \in Job, NEW k, PoolOf[k] = PoolOf[j], k \in Cloud <=> j \in Cloud, CanLaunch(j), Unblocked(k)
  PROVE  Eligible(k)
BY DEF Eligible, CanLaunch, CapFor

\* Nothing is launched past a queued mission that could have gone instead:
\* every launch but that after a conflict check is preceded by a drain in the
\* same turn of the event loop (dispatch, drain, pickNextIndex).
THEOREM FirstComeFirstServed == Spec => NoOvertaking
<1>1. Init => PhaseShape
  BY DEF Init, PhaseShape, CheckShape, Phase
<1>2. PhaseShape /\ [Next]_vars => PhaseShape'
  BY NextPhase
<1>3. PhaseShape /\ [Next]_vars
        => \A j \in Job \ Checked : Launches(j) =>
             \A k \in Range(queue) \ {j} :
               (PoolOf[k] = PoolOf[j] /\ (k \in Cloud <=> j \in Cloud) /\ Unblocked(k))
                 => j \in Range(queue) /\ Ahead(j, k)
  <2> SUFFICES ASSUME PhaseShape, [Next]_vars, NEW j \in Job \ Checked, Launches(j),
                      NEW k \in Range(queue) \ {j},
                      PoolOf[k] = PoolOf[j], k \in Cloud <=> j \in Cloud, Unblocked(k)
               PROVE  j \in Range(queue) /\ Ahead(j, k)
    OBVIOUS
  <2>1. CASE IsPicked(j)
    BY <2>1, SameGate DEF IsPicked, Eligible
  <2>2. CASE Drained /\ CanLaunch(j)
    BY <2>2, SameGate DEF Drained
  <2> QED
    BY <2>1, <2>2, LaunchSteps
<1> QED
  BY <1>1, <1>2, <1>3, PTL DEF Spec, NoOvertaking
=============================================================================
