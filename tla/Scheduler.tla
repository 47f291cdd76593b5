----------------------------- MODULE Scheduler -----------------------------
(***************************************************************************)
(* The mission scheduler (src/lib/agents/scheduler.ts): pools with caps, a *)
(* queue, back-off, the gates for pressure, budget and conflicts, and how  *)
(* the agents store releases and reconciles slots.                         *)
(*                                                                         *)
(* The code runs on one thread.  drain() is a loop without an await, so    *)
(* while "call" names a drain under way nothing else moves: its steps are  *)
(* those of one turn of the event loop.                                    *)
(***************************************************************************)
EXTENDS Integers, Sequences, FiniteSets, Functions, SequencesExt

CONSTANTS
  Job,        \* launches, one per call of dispatch
  Id,         \* mission ids
  Pool,       \* provider pools
  IdOf,       \* job -> id of its mission
  PoolOf,     \* job -> pool (resolveProvider)
  Prio,       \* job -> priority
  Own,        \* jobs of the project the store has loaded
  Cloud,      \* jobs of LazyBots (isCloudOnlyMission)
  Checked,    \* jobs dispatched with scopeInfo and no override
  Metered,    \* jobs that the budget gates look at
  PoolCap,    \* pool -> cap
  GlobalCap,  \* cap over all pools
  Remote,     \* ids of missions that run on another machine
  Walled,     \* bound: jobs whose mission may hit the quota wall
  MaxWorse    \* bound: how often pressure rises or the budget runs out

Free == "free"

ASSUME JobAssumption ==
  /\ IsFiniteSet(Job) /\ IsFiniteSet(Id) /\ Free \notin Pool
  /\ IdOf \in [Job -> Id] /\ PoolOf \in [Job -> Pool] /\ Prio \in [Job -> Int]
  /\ Own \subseteq Job /\ Cloud \subseteq Job /\ Checked \subseteq Job /\ Metered \subseteq Job /\ Walled \subseteq Job
  /\ Remote \cap Id = {}

ASSUME CapAssumption == PoolCap \in [Pool -> Nat] /\ GlobalCap \in Nat /\ MaxWorse \in Nat

VARIABLES
  phase,      \* job -> how far it is
  cancelled,  \* jobs whose mission was stopped before it was launched
  queue,      \* _queue, in the order of seq
  conflicts,  \* job -> conflictsWith
  gated,      \* entries that are budgetBlocked
  running,    \* _running: pool -> count
  slot,       \* _missionPool and _runningMissionIds: id -> pool or Free
  backoff,    \* _backoff: pool -> what set the window that is open, if any
  live,       \* _liveLaunchCount
  active,     \* what the Rust side was last told (notifyMissionsActive)
  pressure,   \* getSystemPressure().level
  broke,      \* is the budget of the metered missions used up?
  worse,      \* counts towards MaxWorse
  toReport,   \* jobs whose reportQuotaBackoff has yet to run
  wall,       \* history: pools whose quota wall stands, as reported
  call        \* the drain under way and what follows it, or <<>>

places == <<phase, queue, conflicts, gated>>
slots  == <<running, slot>>
lives  == <<live, active>>
world  == <<pressure, broke, worse>>
quota  == <<backoff, toReport, wall>>
vars   == <<places, slots, lives, world, quota, cancelled, call>>

\* new: not dispatched; checking: awaits checkConflicts; tail: the status has
\* left running, launchFn has not settled; closing: settled, .finally() to come.
Phase == {"new", "checking", "queued", "running", "tail", "closing", "over"}
Call  == {<<>>, <<"drain">>} \cup ({"dispatch", "close"} \X Job)

TypeOK ==
  /\ phase \in [Job -> Phase]
  /\ cancelled \subseteq Job
  /\ queue \in Seq(Job)
  /\ conflicts \in [Job -> SUBSET (Id \cup Remote)]
  /\ gated \subseteq Job
  /\ running \in [Pool -> Nat]
  /\ slot \in [Id -> Pool \cup {Free}]
  /\ backoff \in [Pool -> {"none", "rate", "quota"}]
  /\ live \in Nat /\ active \in BOOLEAN
  /\ pressure \in {"normal", "elevated", "high"}
  /\ broke \in BOOLEAN /\ worse \in 0..MaxWorse
  /\ toReport \subseteq Job /\ wall \subseteq Pool
  /\ call \in Call

Init ==
  /\ phase = [j \in Job |-> "new"] /\ cancelled = {}
  /\ queue = <<>> /\ conflicts = [j \in Job |-> {}] /\ gated = {}
  /\ running = [p \in Pool |-> 0] /\ slot = [i \in Id |-> Free]
  /\ backoff = [p \in Pool |-> "none"] /\ live = 0 /\ active = FALSE
  /\ pressure = "normal" /\ broke = FALSE /\ worse = 0
  /\ toReport = {} /\ wall = {} /\ call = <<>>
-----------------------------------------------------------------------------
(* Who may be launched.                                                    *)

\* The sum of the counts, by counting the slots of every pool.
TotalRunning == Cardinality(UNION {{p} \X (1..running[p]) : p \in Pool})
RunningIds   == {i \in Id : slot[i] # Free}

\* pressureAdjustedGlobalCap
AdjustedCap ==
  CASE pressure = "high"     -> TotalRunning
    [] pressure = "elevated" -> IF GlobalCap \div 2 > 1 THEN GlobalCap \div 2 ELSE 1
    [] OTHER                 -> GlobalCap

CapFor(j) == IF j \in Cloud THEN GlobalCap ELSE AdjustedCap

\* Mutant: a cloud mission is not counted against any global cap.
CanLaunchCloud(j) ==
  /\ backoff[PoolOf[j]] = "none"
  /\ j \in Cloud \/ TotalRunning < CapFor(j)
  /\ running[PoolOf[j]] < PoolCap[PoolOf[j]]

CanLaunch(j) ==
  /\ backoff[PoolOf[j]] = "none"
  /\ TotalRunning < CapFor(j)
  /\ running[PoolOf[j]] < PoolCap[PoolOf[j]]

OverBudget(j) == j \in Metered /\ broke

\* conflictsResolved and budgetResolved
Unblocked(j) == conflicts[j] \cap RunningIds = {} /\ ~(j \in gated /\ OverBudget(j))

Eligible(j) == CanLaunch(j) /\ Unblocked(j)

Position(j) == CHOOSE n \in DOMAIN queue : queue[n] = j
Ahead(j, k) == Prio[j] > Prio[k] \/ (Prio[j] = Prio[k] /\ Position(j) < Position(k))

\* The entry that pickNextIndex picks.
IsPicked(j) ==
  /\ j \in Range(queue) /\ Eligible(j)
  /\ \A k \in Range(queue) \ {j} : Eligible(k) => Ahead(j, k)
-----------------------------------------------------------------------------
(* Launch, enqueue, release.                                               *)

\* launchNow
LaunchNow(j) ==
  /\ phase' = [phase EXCEPT ![j] = "running"]
  /\ running' = [running EXCEPT ![PoolOf[j]] = @ + 1]
  /\ slot' = [slot EXCEPT ![IdOf[j]] = PoolOf[j]]
  /\ live' = live + 1
  /\ active' = (live = 0 \/ active)

Enqueue(j, ids, overBudget) ==
  /\ phase' = [phase EXCEPT ![j] = "queued"]
  /\ queue' = Append(queue, j)
  /\ conflicts' = [conflicts EXCEPT ![j] = ids]
  /\ gated' = IF overBudget THEN gated \cup {j} ELSE gated

\* The slot of an id is given back: releaseMissionSlot up to its drain.
GiveBack(i) ==
  /\ slot' = [slot EXCEPT ![i] = Free]
  /\ running' = [running EXCEPT ![slot[i]] = IF @ > 0 THEN @ - 1 ELSE 0]

\* releaseMissionSlot of an id that may hold no slot any more.
Release(i) ==
  IF slot[i] = Free THEN UNCHANGED <<slots, call>>
                    ELSE GiveBack(i) /\ call' = <<"drain">>

\* Mutant: whichever launch ends, Rust is told that none is active.
LaunchOverQuietly(j) ==
  /\ phase' = [phase EXCEPT ![j] = "over"]
  /\ live' = live - 1
  /\ active' = FALSE

\* The end of .finally().
LaunchOver(j) ==
  /\ phase' = [phase EXCEPT ![j] = "over"]
  /\ live' = live - 1
  /\ active' = (live # 1 /\ active)
-----------------------------------------------------------------------------
(* drain() and dispatch().                                                 *)

DrainLaunch ==
  /\ call # <<>>
  /\ \E j \in Job :
       /\ IsPicked(j) /\ LaunchNow(j)
       /\ queue' = RemoveAt(queue, Position(j))
       /\ gated' = gated \ {j} /\ conflicts' = [conflicts EXCEPT ![j] = {}]
  /\ UNCHANGED <<world, quota, cancelled, call>>

Drained == call # <<>> /\ \A j \in Range(queue) : ~Eligible(j)

DrainReturns ==
  /\ Drained /\ call = <<"drain">> /\ call' = <<>>
  /\ UNCHANGED <<places, slots, lives, world, quota, cancelled>>

Dispatch(j) ==
  /\ call = <<>> /\ phase[j] = "new"
  /\ call' = <<"dispatch", j>>
  /\ UNCHANGED <<places, slots, lives, world, quota, cancelled>>

\* Mutant: dispatch goes on without draining.
GateUndrained(j) == call = <<"dispatch", j>> /\ call' = <<>>

\* The rest of dispatch, once drain() has returned.
Gate(j) == Drained /\ call = <<"dispatch", j>> /\ call' = <<>>

DispatchLaunches(j) ==
  /\ Gate(j) /\ ~OverBudget(j) /\ CanLaunch(j) /\ j \notin Checked
  /\ LaunchNow(j)
  /\ UNCHANGED <<queue, conflicts, gated, world, quota, cancelled>>

DispatchEnqueues(j) ==
  /\ Gate(j) /\ (OverBudget(j) \/ ~CanLaunch(j))
  /\ Enqueue(j, {}, OverBudget(j))
  /\ UNCHANGED <<slots, lives, world, quota, cancelled>>

\* The conflict check is given the missions that run now, and awaited.
DispatchChecks(j) ==
  /\ Gate(j) /\ ~OverBudget(j) /\ CanLaunch(j) /\ j \in Checked
  /\ phase' = [phase EXCEPT ![j] = "checking"]
  /\ \E ids \in SUBSET (RunningIds \cup Remote) : conflicts' = [conflicts EXCEPT ![j] = ids]
  /\ UNCHANGED <<queue, gated, slots, lives, world, quota, cancelled>>

\* Mutant: the slot is not looked at again after the await.
CheckReturnsUnseen(j) ==
  /\ call = <<>> /\ phase[j] = "checking"
  /\ IF conflicts[j] # {}
     THEN Enqueue(j, conflicts[j], FALSE) /\ UNCHANGED <<slots, lives>>
     ELSE LaunchNow(j) /\ UNCHANGED <<queue, conflicts, gated>>
  /\ UNCHANGED <<world, quota, cancelled, call>>

CheckReturns(j) ==
  /\ call = <<>> /\ phase[j] = "checking"
  /\ IF conflicts[j] # {} \/ ~CanLaunch(j)
     THEN Enqueue(j, conflicts[j], FALSE) /\ UNCHANGED <<slots, lives>>
     ELSE LaunchNow(j) /\ UNCHANGED <<queue, conflicts, gated>>
  /\ UNCHANGED <<world, quota, cancelled, call>>

\* Mutant: the timer only reports what is stalled.
SweepWithoutDrain ==
  /\ call = <<>> /\ \E j \in Range(queue) : Eligible(j)
  /\ UNCHANGED vars

\* The timer of startPeriodicSweep, where its drain has something to do.
Sweep ==
  /\ call = <<>> /\ \E j \in Range(queue) : Eligible(j)
  /\ call' = <<"drain">>
  /\ UNCHANGED <<places, slots, lives, world, quota, cancelled>>
-----------------------------------------------------------------------------
(* The life of a launched mission.                                         *)

\* The status becomes review, done, failed or cancelled: applyRunUpdate and
\* updateMission release the slot; for a mission of another project nothing
\* does.  A mission that hit the quota wall will report it.
LeaveRunning(j) ==
  /\ call = <<>> /\ phase[j] = "running" /\ j \notin cancelled
  /\ phase' = [phase EXCEPT ![j] = "tail"]
  /\ IF j \in Own THEN Release(IdOf[j]) ELSE UNCHANGED <<slots, call>>
  /\ toReport' \in {toReport, toReport \cup ({j} \cap Walled)}
  /\ UNCHANGED <<queue, conflicts, gated, lives, world, backoff, wall, cancelled>>

\* reportQuotaBackoff, detached from the mission that started it.
ReportQuotaExhausted(j) ==
  /\ call = <<>> /\ j \in toReport
  /\ toReport' = toReport \ {j}
  /\ backoff' = [backoff EXCEPT ![PoolOf[j]] = "quota"]
  /\ wall' = wall \cup {PoolOf[j]}
  /\ UNCHANGED <<places, slots, lives, world, cancelled, call>>

\* The promise of launchFn settles: .then clears the back-off of the pool,
\* .catch starts one when the error is a rate limit.
Settle(j) ==
  /\ call = <<>>
  /\ phase[j] = "tail" \/ (phase[j] = "running" /\ j \in cancelled)
  /\ phase' = [phase EXCEPT ![j] = "closing"]
  /\ \/ backoff' = [backoff EXCEPT ![PoolOf[j]] = "none"]
     \/ backoff' = [backoff EXCEPT ![PoolOf[j]] = "rate"] /\ j \notin toReport
     \/ UNCHANGED backoff /\ j \notin toReport
  /\ UNCHANGED <<queue, conflicts, gated, slots, lives, world, toReport, wall, cancelled, call>>

\* Mutant: .finally gives the slot back whether or not it is still held.
FinallyReleasesAgain(j) ==
  /\ call = <<>> /\ phase[j] = "closing"
  /\ slot' = [slot EXCEPT ![IdOf[j]] = Free]
  /\ running' = [running EXCEPT ![PoolOf[j]] = IF @ > 0 THEN @ - 1 ELSE 0]
  /\ call' = <<"close", j>>
  /\ UNCHANGED <<places, lives, world, quota, cancelled>>

\* .finally: the slot is released if it still is held, which drains, ...
FinallyReleases(j) ==
  /\ call = <<>> /\ phase[j] = "closing" /\ slot[IdOf[j]] # Free
  /\ GiveBack(IdOf[j]) /\ call' = <<"close", j>>
  /\ UNCHANGED <<places, lives, world, quota, cancelled>>

\* ... and then the launch is over.
FinallyEnds(j) ==
  /\ \/ call = <<>> /\ phase[j] = "closing" /\ slot[IdOf[j]] = Free
     \/ Drained /\ call = <<"close", j>>
  /\ LaunchOver(j) /\ call' = <<>>
  /\ UNCHANGED <<queue, conflicts, gated, slots, world, quota, cancelled>>

\* stopMission of a mission that waits: its entry stays in the queue.
Cancel(j) ==
  /\ call = <<>> /\ phase[j] = "queued" /\ j \in Own \ cancelled
  /\ cancelled' = cancelled \cup {j}
  /\ UNCHANGED <<places, slots, lives, world, quota, call>>

\* To the store, the mission with this id runs on.
StillListed(i) ==
  \E j \in Own : IdOf[j] = i /\ phase[j] \in {"queued", "running"} /\ j \notin cancelled

\* The reconcile timer of the store frees what its own list does not show.
Reconcile(i) ==
  /\ call = <<>> /\ slot[i] # Free /\ ~StillListed(i)
  /\ GiveBack(i) /\ call' = <<"drain">>
  /\ UNCHANGED <<places, lives, world, quota, cancelled>>
-----------------------------------------------------------------------------
(* The world around the scheduler.                                         *)

BackoffExpires(p) ==
  /\ call = <<>> /\ backoff[p] = "rate"
  /\ backoff' = [backoff EXCEPT ![p] = "none"]
  /\ UNCHANGED <<places, slots, lives, world, toReport, wall, cancelled, call>>

\* The reset time passes.
WallFalls(p) ==
  /\ call = <<>> /\ p \in wall
  /\ wall' = wall \ {p}
  /\ backoff' = [backoff EXCEPT ![p] = IF @ = "quota" THEN "none" ELSE @]
  /\ UNCHANGED <<places, slots, lives, world, toReport, cancelled, call>>

Worsen ==
  /\ call = <<>> /\ worse < MaxWorse /\ worse' = worse + 1
  /\ \/ pressure' \in {"elevated", "high"} \ {pressure} /\ UNCHANGED broke
     \/ Metered # {} /\ ~broke /\ broke' = TRUE /\ UNCHANGED pressure
  /\ UNCHANGED <<places, slots, lives, quota, cancelled, call>>

PressureClears ==
  /\ call = <<>> /\ pressure # "normal" /\ pressure' = "normal"
  /\ UNCHANGED <<places, slots, lives, broke, worse, quota, cancelled, call>>

BudgetRaised ==
  /\ call = <<>> /\ broke /\ broke' = FALSE
  /\ UNCHANGED <<places, slots, lives, pressure, worse, quota, cancelled, call>>
-----------------------------------------------------------------------------
DispatchStep(j) ==
  Dispatch(j) \/ DispatchLaunches(j) \/ DispatchEnqueues(j) \/ DispatchChecks(j) \/ CheckReturns(j)

MissionStep(j) ==
  LeaveRunning(j) \/ ReportQuotaExhausted(j) \/ Settle(j) \/ FinallyReleases(j) \/ FinallyEnds(j) \/ Cancel(j)

Next ==
  \/ DrainLaunch \/ DrainReturns \/ Sweep
  \/ \E j \in Job : DispatchStep(j) \/ MissionStep(j)
  \/ \E i \in Id : Reconcile(i)
  \/ \E p \in Pool : BackoffExpires(p) \/ WallFalls(p)
  \/ Worsen \/ PressureClears \/ BudgetRaised

Spec == Init /\ [][Next]_vars

\* What the event loop, the timers and time itself see to.  Missions leave
\* running sooner or later (maxDurationMs, the silence watchdog); that the
\* promise of a launch ever settles is not assumed.
Fairness ==
  /\ WF_vars(DrainLaunch) /\ WF_vars(DrainReturns) /\ WF_vars(Sweep)
  /\ WF_vars(PressureClears) /\ WF_vars(BudgetRaised)
  /\ \A j \in Job :
       /\ WF_vars(DispatchLaunches(j) \/ DispatchEnqueues(j) \/ DispatchChecks(j))
       /\ WF_vars(CheckReturns(j)) /\ WF_vars(LeaveRunning(j)) /\ WF_vars(FinallyEnds(j))
  /\ \A i \in Id : WF_vars(Reconcile(i))
  /\ \A p \in Pool : WF_vars(BackoffExpires(p)) /\ WF_vars(WallFalls(p))

FairSpec == Spec /\ Fairness
-----------------------------------------------------------------------------
(* Properties.                                                             *)

\* A pool's count is the number of ids that hold a slot of it: whichever of
\* the early release, .finally() and the reconcile timer comes first frees
\* the slot, and the others free nothing.
SlotsAccounted == \A p \in Pool : running[p] = Cardinality({i \in Id : slot[i] = p})

\* Missions of the loaded project that work in a pool.
Working(p) == {j \in Own : PoolOf[j] = p /\ phase[j] = "running" /\ j \notin cancelled}

\* What the caps are for: never more missions at work in a pool than its cap.
\* The early release of slots and the await in dispatch do not undo it.
PoolCapKept == \A p \in Pool : Cardinality(Working(p)) <= PoolCap[p]

\* Nor more missions, over all pools, than the global cap, whatever the
\* pressure and whatever runs in the cloud.
GlobalCapKept == Cardinality(UNION {Working(p) : p \in Pool}) <= GlobalCap

\* A mission that works holds its slot (agentsStore.tsx, reconciliation).
HeldWhileRunning ==
  \A j \in Job : (phase[j] = "running" /\ j \notin cancelled) => slot[IdOf[j]] = PoolOf[j]

InFlight == {j \in Job : phase[j] \in {"running", "tail", "closing"}}

\* Rust is told that missions are active exactly while a launch is in flight,
\* tail included.
ActiveHonest == active <=> InFlight # {}

\* A launch never passes a queued entry of its pool that could have gone
\* instead, be it one dispatched this moment (FIFO within priority).  After
\* the await of a conflict check nothing is drained, so those are left out.
Launches(j) == phase[j] # "running" /\ phase'[j] = "running"

NoOvertaking ==
  [][\A j \in Job \ Checked : Launches(j) =>
       \A k \in Range(queue) \ {j} :
         (PoolOf[k] = PoolOf[j] /\ (k \in Cloud <=> j \in Cloud) /\ Unblocked(k))
           => j \in Range(queue) /\ Ahead(j, k)]_vars

\* A queued mission is launched in the end, even when launches before it
\* never settle.
QueuedLaunch == \A j \in Job : phase[j] = "queued" ~> phase[j] = "running"
-----------------------------------------------------------------------------
(* The inductive invariant, for missions whose ids are their own.          *)

UniqueIds == \A j, k \in Job : IdOf[j] = IdOf[k] => j = k

LiveCounted == live = Cardinality(InFlight) /\ (active <=> live # 0)

\* A slot that is held is that of the pool of a launch in flight.
HolderInFlight ==
  \A j \in Job : slot[IdOf[j]] # Free => slot[IdOf[j]] = PoolOf[j] /\ j \in InFlight

OwnHeld ==
  \A j \in Own : (phase[j] = "running" /\ j \notin cancelled) => slot[IdOf[j]] # Free

QueueShape ==
  /\ \A n \in DOMAIN queue : phase[queue[n]] = "queued"
  /\ \A m, n \in DOMAIN queue : queue[m] = queue[n] => m = n

\* The drain of a dispatch or of a .finally leaves its own job alone.
CallShape ==
  \A j \in Job :
    /\ call = <<"dispatch", j>> => phase[j] = "new"
    /\ call = <<"close", j>> => phase[j] = "closing" /\ slot[IdOf[j]] = Free

CapKept == \A p \in Pool : running[p] <= PoolCap[p]

\* All pools together stay within the global cap.
GlobalKept == Cardinality(RunningIds) <= GlobalCap

\* Only missions with a scope are checked for conflicts.
CheckShape == \A j \in Job : phase[j] = "checking" => j \in Checked

IInv ==
  /\ TypeOK /\ SlotsAccounted /\ LiveCounted /\ HolderInFlight /\ OwnHeld
  /\ QueueShape /\ CallShape /\ CapKept
=============================================================================
