# A TLA+ model of Lazy IDE

Lazy IDE is a desktop IDE in which fleets of coding agents ("missions") work on
a repository. This directory holds TLA+ models of the parts of it whose control
flow is hard to test, TLC configurations that check them on small instances,
and TLAPS proofs for every instance. All paths below are relative to the
repository, whose sources lie under `src/`.

## The system

| Component | State it keeps | Operations | Interacts with |
|---|---|---|---|
| Graph run executor `src/src/lib/agents/graph/runGraph.ts`, `graphIr.ts` | `GraphRun`: a status per node and run, attempts, outputs, branches, budget; `effectiveIr`, the graph as patched | `runGraph` (wave loop: boundary, launches, wait, results), re-entry with `existingRun` | launches missions, calls diagnosis and replan, polls run control, persists runs |
| Replan engine `graph/replanEngine.ts` | none (pure) | `replan`: gates, patch from the diagnosis, patch application | called by the executor on a failure |
| Run control `graph/runControl.ts` | two sets of run ids with a pending pause or cancel | `pauseGraphRun`, `resumeGraphRun`, `cancelGraphRun`, `clearRunControl` | callers write, the executor polls |
| Run persistence `graph/graphRunStore.ts`, `checkpointStore.ts`, `forkFromCheckpoint.ts` | run files on disk | save, load, list, reconcile phantom runs, fork | executor, boot |
| Compilers `graph/compileOrchestrator*.ts`, `canvasToIr.ts`, `yamlWorkflowImport.ts`, `nestedSubgraphs.ts` | none (pure) | plan, canvas or YAML to `GraphIR` | executor |
| Run hosts `graph/sgrOrchestratorRunner.ts`, `runnerGraphDeps.ts` | subscriptions, plan state | launch and wait for missions, sync the plan, repair the graph | executor, agents store |
| Mission scheduler `scheduler.ts` | running counts per pool, a queue, backoffs, the slot of each mission id | dispatch, drain, release, sweep, backoff, pressure | agents store, mission execution, Rust consolidator |
| Mission execution `runtime.ts`, `runMissionSettle.ts`, `managedAgent*.ts` | one mission's turns and tools | run, retry, settle, evaluate | scheduler, store |
| Agents store `src/src/components/agents/agentsStore.tsx` | the fleet as React state | create, launch, stop, approve; reconcile ticks | almost everything |
| Mission queue file `missionQueue.ts` | `.lazy/mission-queue.json` | enqueue, dequeue, recover, mark stale, purge, reconcile | store, boot |
| Recurring loops `loopEngine.ts`, `loopScheduler.ts` | loop files | tick, fire, record outcome, stop, enable | store |
| Silence watchdog, recovery `silenceWatchdog.ts`, `recovery.ts` | strike count | timeout decision, retry decision | mission execution |
| Fleet hygiene `fleetHygiene.ts` | none | boot sweeps of stale missions | store |
| Canvas joins, contests, chains `joinEngine.ts`, `contestEngine.ts`, `chainEngine.ts` | canvas state | fire successors | store |
| Budgets, conflicts `budgetTracker.ts`, `preflight.ts` | totals | predicates | scheduler |
| Journal `src/src/lib/journal`, `src/src-tauri/src/commands/journal.rs` | append-only event files | append, read, fold | everything |
| LazyBots `src/src/lib/bots` | routines, approvals | run, hand off, schedule | scheduler |
| Worktrees `src/src-tauri/src/commands/git/worktree`, `worktree_sweep.rs` | git worktrees | create, merge, sweep | mission execution |
| Brain sidecar and engine `src/src-tauri/src/commands/brain`, `src/engine` | a child process in a mutex; per brain a lock file and a record; an index | start or restart, stop, wipe, exit; index, recall | executor, missions, other instances of the app |
| Desktop shell `src/src-tauri/src` | windows, updater | Tauri commands | UI |
| UI, collaboration, teams | view state | rendering, presence, sync | store |

What is hard: the executor is a single-threaded event loop, but everything it
does is interleaved at awaits. Several launch closures of a wave write one
shared run; missions settle at any time; callers pause, cancel, abort and
re-enter at any await; a failure rewrites the graph while other results of the
wave are still to be processed; and a re-entry forgets the rewriting. The
scheduler has the same difficulty with slots that are released by several
parties. The brain sidecar is the one part with several processes and a crash
model: what a crashed instance leaves on disk is found by the next.
`PROJECT.json` lists the hazards, each at its line, with the
properties that watch it.

What makes the components correct, in one line each: the executor runs a DAG
(no node before its dependencies, nothing done twice, nothing lost), obeys its
controls, stays within its budget and returns; the replan engine keeps the
graph a DAG and retries bounded; run control never loses a request; the
scheduler keeps its counts equal to what runs, within the caps, in order, and
launches everything in the end; the queue file loses no entry; loops stop; a
watchdog stops a silent mission only; one brain has one writer.

## Modules

* `GraphRun` models `runGraph`, `graphIr.ts`, `replanEngine.ts` and
  `runControl.ts` together: they share the run.
* `DagRun` states abstractly what a run promises: waves over a DAG.
* `GraphRunDag` instantiates `DagRun` under a refinement mapping and holds the
  inductive invariant.
* `GraphRun_proofs` holds the theorems about the order of waves, `GraphWave_proofs`
  those about what happens in a wave: missions, branches, conditions, controls, budget.
* `MCGraphRun` defines the small graphs that the `.cfg` files use.
* `Scheduler` models `scheduler.ts` with the store's calls into it and holds
  its inductive invariant; `Scheduler_proofs` holds its theorems and
  `MCScheduler` its small fleets. It shares no state with `GraphRun`: for the
  executor, a mission that waits for a slot is a mission that has not settled.
* `MissionRun` models one call of `runMission`: launch, the passes of the agent
  on each engine, settlement, retry, caps, watchdog, stop and pause.
  `MissionRun_proofs` holds its theorems, `MCMissionRun` its engines. For the
  scheduler, all of it is one job between `running` and its end; for the
  executor, a mission that settles one way or the other.
* `Loops` models the registry of recurring loops, the scheduler that fires them
  and the operations that edit the registry meanwhile. `Loops_proofs` and
  `LoopCount_proofs` (what the registry counts) hold its theorems, `MCLoops` its
  small instance.
* `Sidecar` models the process that serves a brain: the lock and the record on
  disk, the handle in each instance of the app, crashes, exits.
  `Sidecar_proofs` holds its theorems, `MCSidecar` its small instance.
* Operators marked "Mutant" are faulty variants of a definition further down.
  Nothing uses them; each shows that a property notices the fault.

### How GraphRun corresponds to the code

`pc` is the place of the loop: `boundary` is the code from `while (true)` to
the marking of a wave, which reads all control channels without an await in
between; `launch` is the `Promise.all` over the launch closures; `wait` is
`waitForMissions`; `results` the loop over the results; `returned` means that
the call has ended. Each boundary action is one branch of that code, in its
order: abort, cancel, pause, budget, nothing ready (failed, interrupted, done),
or a wave. The poll with `sleep(100)` changes nothing and is no action; that it
never spins for ever is `BoundaryQuiet` with `Terminates`.

In a wave, `stage[n]` is the place of the launch closure of `n`: `recall` (the
branch is resolved, the brain recall is awaited), `launching` (in
`launchMission`), `waiting` (a contest or loop inside its own
`waitForMissions`), and the three ways to return: `launched`, `empty` (no
mission, no error) and `error`. Closures interleave with each other, with
missions and with callers. `Launch(n)` has an action per step of each node
kind. Results are processed in any order; the code uses the order of the wave,
which is the order of the nodes in the graph, and that is left open.

A failure calls `diagnose`, which is the environment, and the replan engine,
which is not: `Exceeded`, `GivesUp`, `ReplanAborts`, `ReplanSkips` and
`ReplanRetries` are its gates in their order. A test failure inserts a verify
node; its edges replace the failed node's outgoing ones and carry no condition,
as in the code.

Missions are the environment: a launch may throw; a mission settles as done,
in review, in review with a conclusive rejection, or failed; an abort makes the
wait give it up (`missing`). Callers of run control hold the latest persisted
run. `Resume` is the documented `runGraph(ir, deps, {existingRun:
resumeGraphRun(run)})`: the graph is the caller's, so a replan's patch is gone
while its nodeRuns remain.

Data is abstract: an output is the set of condition words in it, a branch is
whether there is one, a cost is a small number, the categories of a diagnosis
that lead to a plain retry are one. Left out: prompts, brain notes, traces,
events, timestamps, the awaits of `persistRun` (they only add interleavings of
steps that are already separate or touch nothing shared), subgraph expansion,
and the branch of the result loop for a mission that is neither finished nor in
review, which the modelled `waitForMissions` excludes. Two corners are left out
too. An edge is its triple of ends and condition, where the code has ids: the new
edges of an inserted verify node are `e-replan-<now>-1` and
`e-replan-<now>-<e.to>`, equal if a successor is called `1`, and `applyPatch`
removes edges by id (`replanEngine.ts:222-230`, `331-333`). And a launch that
throws an error with an empty text is no failure to `runGraph.ts:747`, which
leaves the node running; in the model every throw is one. `incurred`, `delivered`
and `asked` are history variables.

### How Scheduler corresponds to the code

A job is one call of `dispatch`. `phase` says how far it is; `running`, `slot`,
`queue`, `backoff` and `live` are the module variables of `scheduler.ts`
(`slot` is `_missionPool` and `_runningMissionIds`, which always change
together), `conflicts` and `gated` fields of its queue entries. The order of
`queue` is the order of `seq`.

`drain()` has no await. It is a loop of `DrainLaunch` steps while `call` names
its caller: the sweep or a release (`<<"drain">>`), a `dispatch` that drains
first, or a `.finally()` that has more to do. No other action is enabled
meanwhile, so a drain and what follows it is one turn of the event loop, as in
the code. `Gate(j)` is the rest of `dispatch` after its drain, with one action
per outcome; `CheckReturns` is what follows the await of `checkConflicts`.

`LeaveRunning` is the early release by `applyRunUpdate` and `updateMission`; a
mission of another project (`Own` does not contain it) has none. `Settle` is
the `.then` and `.catch` of `launchNow`, `FinallyReleases` and `FinallyEnds` its
`.finally`. A quota wall is reported by a detached task (`toReport`), so that
the report may come before or after the promise resolves; a mission that is
about to report resolves, because `failNoRetry` swallows the failure. `wall` is a
history variable: the pools whose reported reset time has not passed.
`Reconcile` is the timer of the store, which knows its own project only.
`Cancel` stops a queued mission, whose entry stays.

Data is abstract: a back-off window is open or not and expires at any time, a
conflict check returns any set of the missions that ran when it was asked and
of missions elsewhere, the budget of all metered missions is one. Caps are
constants. Left out: how a pool is resolved, `scheduler.throttled` and
`scheduler.stalled` (one-shot messages), and steps that `launchFn` takes before
its first await.

### How MissionRun corresponds to the code

`pc` says where `runMission` awaits: the session gate, preparation (which ends
with the status set to `running`), the creation of the worktree, then a pass
(`brief` while its context is collected, `pass` while the agent works, `held`
while it waits out a pause), `settle`, the `delay` before the retry, the diff,
and the discards. The three early exits, the early stop and the settlement
(`Verdict`, the order of `settleAfterAgentLoop` and `retryThenResettle`) are
the code's branches in the code's order.

`rail` is the engine. On `native` a pass is an operating-system process whose
`proc` goes from `starting` (spawned, PID not tracked yet, so that a kill finds
nothing) to `up`, `dying` (signalled) and `none`; its done event reaches the
pass only while the pass listens. On `managed` and `byok` a pass is the ReAct
loop inside the app, `LoopStep` to `LoopRefused` its outcomes. `byok` and
`native` share the duration timer and the post-hoc budget check.

Beside the run act the store (`StopMission`, whose own kill and discard finish
in `StopDiscards`, `PauseMission`, `ResumeMission`), the duration timer and the
silence watchdog, which is `decideSilenceTimeout` on what the run has shown.

Data is abstract: a recovery decision is a retry or none (`wall`), a failure's
reason is one of those that settlement tells apart. A discard succeeds. Left
out: the detached runner (`planAndActLiveViaRunner`), the scripted engine,
error events of a pass that has already ended, missions of LazyBots, the
status checks that the manager's `stop_mission` tool does not make, and what
happens after review. `PauseMission` also stands for the pause that a budget
or duration warning of the managed loop asks for.

### How Loops corresponds to the code

`file` is `.lazy/loops.json`. Nothing locks it: `job[a]` is the operation that
an actor (a tick, a startup load, or an editor of the store) is in, with the
step it awaits: `Get` (`getLoop`), `Read` (`readLoops`, after which the new
contents are computed) and `Write` (`writeLoops`). The commands behind a read
and a write are synchronous, so each is one step. `Patched` and `Written` are
what each operation makes of the entry; `Return` is what the store does when
the operation has returned, with its own `copy` of the entry and its `anchor`.

A tick is `TickStarts` (the missions are looked at), `TickReads` (`tick()`),
`TickHalts` (loops to disable for good), and for each due loop `TickTakes` (stop
condition, or the mark) and `TickFires` (the iteration mission is added,
whatever has happened meanwhile), until `TickEnds` resets `ticking`. `Mount`
are schedulers one after another: after `Stop` what is in flight goes on, after
`Crash` nothing does. A loop's regime is the number `trust`.

Time counts intervals of the scheduler. `clean`, `wanted`, `rest`, `lost` and
`late` are history. Left out: the per-loop state file, metrics, journal, the
pruning of old missions, a write that is cut short by a crash, and the regimes
above `validated`, which nothing in the registry sets. Files always work in the
model. In the code `readLoops` answers an empty registry when the read or the
parse fails (`loopEngine.ts:212-214`), which the next write makes permanent, and
`writeLoops` returns from a write that failed as from one that did not
(`loopEngine.ts:226-228`), so that an iteration whose mark was not written is
launched and not counted. The properties hold of runs without such errors.

### How Sidecar corresponds to the code

`call[k]` is one call of `start_or_restart_brain_sidecar`, a thread of the
instance `call[k].app`. `create`, `write`, `read`, `steal` and `again` are the
file operations of `acquire_sidecar_spawn_lock` (`try_create_lock_file` creates
the file and then writes its pid); `reclaim` and `forget` the two halves of
`reclaim_stale_sidecar`; `spawn` and `respawn` the two critical sections of the
mutex, each of which stops the child and spawns another; `wait` and `rewait`
the calls of `wait_ready_at`; `record` writes the state file; `check` is the
second look at `SHUTTING_DOWN`; `drop` is the guard's `Drop`. `own[a]` is the
`child` in the `BrainState` of the instance `a`, `lock[b]` and `record[b]` are
the two files of a brain.

An instance goes from `up` to `closing` (`mark_shutting_down`), `stopped`
(`stop_brain_sidecar_for_exit`, which runs again at `RunEvent::Exit`) and
`exited`; `Crash` takes it from any of these. Either way its threads end where
they are and nothing is cleaned up behind them: `Drop` does not run. A restarted
app is another element of `App`. `Wipe` is `brain_wipe`'s own stop.

`wait_ready_at` asks a port with the token of the instance. It is answered by
the child that is in the handle when that one has bound the port, which need
not be the child the caller has spawned. `usurped`, `late` and `told` are
history. Left out: ports, a poisoned mutex, file operations that fail, pids that
are used again, `ensure_brain_init`, and the tree below a sidecar's process.

## Runs

Deadlock is not checked: a run that has returned may stop for good.

| Run | Instance | Shows |
|---|---|---|
| `Plan` | a diamond of four tasks, one of them non-critical, one with an output schema; all diagnoses; two replans; a budget of 4 | types, dependencies in the patched graph, acyclicity, bounded retries, no wave after the money is gone |
| `Reentry` | two tasks in a row, one beside them with a base branch of its own, one node per wave; test failures; one replan; one re-entry; pause and cancel at any time | dependencies of the compiled graph, quiet boundaries, no start from a missing branch, requests are obeyed, refinement of `DagRun` |
| `Routing` | a router with two conditional branches, a conditional edge past it, an interrupt and a form below; retries | conditions decide what starts, one branch of a router at most |
| `Kinds` | empty loop, contest of two, join, counted loop, predicate loop, task in a row; a retry; aborts and cancels; weak fairness | a contest is done only with a successful contestant, no mission out of sight, done means complete, the loop returns |
| `Caps` | four missions, pools of two and one, a global cap of two; one mission goes first, one is checked for conflicts, one has a budget, one is a LazyBot; rate limits, a quota wall, stops; pressure rises or the budget runs out once | slots are accounted for, pool and global caps are kept, Rust is told the truth, nothing is overtaken |
| `Launch` | two missions of the project and one of another, caps of one; weak fairness | everything queued is launched, though no promise need settle |
| `Foreign` (violation) | the same fleet, an uncapped cloud and no walls | the reconcile timer frees the slot of a running mission |
| `Mission` | one mission on each engine; stop at any time, two pauses, all failures, both caps, two strikes; fairness | worktrees are kept for review and else discarded, never under a working agent; an early stop is honoured and ends the run; one outcome; one process; silence ends a hung mission |
| `NativePause` (violation) | the same, one pause | a paused pass settles before its done event |
| `Loops` | one gated loop of two iterations, one every interval; two schedulers, two of: edits, stop, crash, slow write; five intervals; fairness | iterations counted once, bounded, spaced; the last operation has the last word; at most one late iteration; due loops are taken up |
| `OncePerCadence` (violation) | the same with every other interval, only the freezing of a template | a lost update makes a loop fire twice in its cadence |
| `Sidecar` | two instances, three calls, two brains, two processes, one crash of an instance or of a sidecar; exits, wipes, time-outs at any step | an instance has one live sidecar, in its handle; one call at a time under a lock; what was recorded is found; what an exit leaves was spawned after it was announced, one per call |

Bounds. Graphs have two to seven nodes, enough for a wave of several nodes, a
chain of waves and a fan-in. Two replans let a verify node be followed by
another, or by a retry of the node; one re-entry lets the patched graph be
forgotten. `MaxAttempts` of 1 or 2 lets each gate of the replan engine fire.
In `Kinds` costs are 0, since no property of that run reads them; a predicate
loop runs two iterations at most where the code's cap is 100. The model's own
bounds are `MaxResumes` and the constants above; everything else is finite by
the code's own limits.

The fleets of the scheduler are the smallest in which two missions compete for
a pool while a third competes for the global cap, and in which every releaser
and every gate acts; with more missions the state space outgrows the time one
wants to spend. `MaxWorse` bounds how often pressure rises or the budget runs
out, `Walled` which missions may hit the quota wall.

In `Mission` the only bound is `MaxPauses`, since a user may click for ever; two
pauses reach a pause of a resumed pass and of the retry. `Loops` is bounded by
the clock and by `MaxEdits`: two edits suffice for one that is in flight at a
tick and one that answers it, or an edit and a crash; the limits of 3 failures
and 500 iterations of the code are 2 and 3 here. At the start a loop has run
once and was due while the app was closed, or is still to be created. The date
and the pass stop conditions, and the hard cap, are modelled but not reached by
this instance. The properties of `Loops` hold `clean` runs to account, in which
no write rested on a stale copy and no two ticks overlapped: without that
condition they are false, as `OncePerCadence` shows of one of them. Ticks,
restarts and crashes by themselves keep a run clean, and so does every edit that
does not overlap another operation, with one exception: `skipLoopNextRun`. It
writes the store's copy of the entry, and no mark, load or regime update reaches
that copy, so that a skip of a loop that has run is stale even if it is alone: it
sets the count back to what the copy says and the limit of iterations starts anew
(see the deviations). Such a skip is exempt, and the properties, and the theorems
about them, say nothing of the run that follows it; a skip of a loop that has not
run since the copy was made is held to account like any other edit.

`Sidecar` needs two instances for a lock that outlives its owner and one that is
fought over, two calls of one instance for the shared handle, and a third call
that comes after; two processes for one that is replaced or left behind; two
brains for two locks held by threads of one instance. One fault is a crash that
leaves a lock, a child or both. Permutations of instances, calls, brains and
processes are symmetries: the specification names none of them, and the run
checks no liveness. `SpawnExclusive` and `RecordFindsIt` exempt a brain whose
lock was taken from a live call (`usurped`, see the deviations), which the
instance reaches; more faults are left to the proofs.

Fairness of the executor. `FairSpec` asks for weak fairness of the loop as a whole, including
its environment: the JavaScript event loop runs what is runnable, launches
answer or throw, and missions settle. The last is an assumption on the mission
runtime, whose watchdogs exist to make it true. Callers owe nothing.

Fairness of the scheduler. Weak fairness of the turns of the event loop (drain,
gate, the end of a check), of its two timers, of time (back-offs end, walls
fall), of pressure and budget returning to normal, and of missions leaving
`running`. There is none of `Settle`: the header of `scheduler.ts` says that a
promise may hang for ever after the mission has left `running`, and `Launch`
shows that the queue does not depend on it. Pressure and budget must return to
normal, since under high pressure the code launches nothing on purpose.

Fairness of a mission. Weak fairness of the run's own steps (awaits of git, of
the back-off, of a 200 ms poll), of the end of a process (the Rust side kills
it at `MISSION_HARD_DEADLINE_SECS`), of its tracking, and of the window of
silence once the agent hangs. Nothing says that an agent that works ever ends,
nor that the evaluation does.

Fairness of loops. Reads and writes return, a tick goes on, and the interval
fires while the scheduler is up. Nobody edits on purpose. `DueFires` says of a loop
that is due, and of a scheduler that is up and has an interval ahead of it, that
this scheduler takes the loop up, unless the loop ceases to be due (an edit, a
halt, another tick's mark) or the scheduler ends. It does not rest on the end of
the clock: a scheduler that passes over what is due violates it, and so does one
whose `ticking` stays set.

No fairness is assumed of the sidecar, and no liveness stated: a call that finds
the lock of a live owner gives up, and nobody need call again.

## Proofs

`GraphRun_proofs` proves, for every graph, every bound and every number of
replans and re-entries, from the assumptions `GraphAssumption` (what
`validateGraph` accepts, finitely many nodes), `LimitAssumption` (types of the limits) and
`SpareAssumption` (there are names for the verify nodes):

* `TypeCorrect`, `DependenciesDone`, `PatchedDependenciesDone`,
  `QuietBoundary`, `DoneStays`, `BoundedRetries`, `StaysAcyclic`;
* `ImplementsDagRun`: the executor implements `DagRun`.

The inductive invariant `IInv` (in `GraphRunDag`) adds to type correctness:
where a wave can be at each `pc` (`WaveShape`), who may be ready or running
(`BusyShape`), that a wave's unprocessed nodes have started (`WaveStarted`),
and four facts about patches. `StemEdges` and `StemCovers` say that the verify
nodes inserted for a node hang below it and above what depends on it; without
them a re-entry, which restores the compiled edges, would lose the dependency
(a node could have started because its verify node was done).
`SettledDeps` strengthens the dependency properties from "done" to "done and
out of its wave", since a contest that is done inside its wave may still be
failed by the result loop. Retries need `RetriesShape` of their own, and
acyclicity needs only that an inserted verify node is fresh.

`GraphWave_proofs` goes on from there. `WaveInv` adds to `IInv` what a wave has in
hand: which stage goes with which status and kind (`StageShape`), that a result
belongs to a mission the wave waits for and that of a contest is its winner's
(`ResultShape`), that a task or a loop has exactly one mission in flight while it
waits for it (`LiveShape`), and that the producers of a node about to launch are
not in its wave (`InheritShape`). From it follow, without a hypothesis:

* `NoEmptyStart`: a node that inherits its branch starts only if all its
  producers have one. `Producers(n)` is the smallest set closed under the
  code's walk through joins and routers, which makes it a set one can reason
  about; it depends on settled nodes only, so no closure of the same wave takes
  a branch away between check and launch.
* `NobodyStrays` and `ContestsDeliver`.

Five properties are true of some graphs only, and the hypothesis of each theorem
says of which. None is about the run:

* `ConditionsKept` needs `NoVerify`, that no diagnosis is a test failure: the
  patch for one replaces conditional edges by unconditional ones (see the
  deviations). Outputs are written by the result step alone, so a condition that
  held at the start holds from then on.
* `OneBranchOnly` needs `RoutersLead`, that a router has an edge to each of its
  targets, which is how `resolveRouterBranchTarget` (`canvasToIr.ts`) finds them.
  Then a target cannot have started before its router is done, and the router's
  step skips all but one.
* `DoneIsComplete` needs `PlainPlan`, critical nodes, unconditional edges, no
  routers (the plans of the orchestrator), and `NoVerify`. If some node is not done
  when nothing is ready, a minimal one in the DAG has all its dependencies done
  and would be ready.
* `RequestsAreObeyed` needs `NoInterrupts`: an interrupt node marks the run
  `interrupted` while its wave goes on, and `cancelGraphRun` of such a run
  registers no request.
* `BudgetHolds` needs `OnlyTasksPay`: iterations of a loop node go on no budget,
  and the free winner of a contest charges nothing although its rivals cost. What
  the missions have cost is what the budget was charged plus what the unprocessed
  results of the wave owe; `Owed` counts that unit by unit, so that the sum is a
  cardinality, and at a boundary nothing is owed.

`Scheduler_proofs` proves, for every fleet, pools, caps and bounds, from
`JobAssumption` and `CapAssumption` (types, finitely many jobs and ids) and
under the hypothesis `UniqueIds` (no two jobs share a mission id):

* `SlotTypes`, `SlotsCounted`, `ActiveTold`, `PoolCapsKept`, `GlobalCapHolds`;
* `FirstComeFirstServed`, which does not need the hypothesis.

The invariant `IInv` of `Scheduler` is inductive because it adds who may hold a
slot (`HolderInFlight`: a launch in flight, so that a job not yet launched holds
none and a launch adds one to the account), that every mission of the project at
work holds its slot (`OwnHeld`, which is where the reconcile timer could do
harm), that the queue holds each waiting job once (`QueueShape`), and that a
drain leaves the job of its caller alone (`CallShape`: the slot that `.finally`
has given back stays free until the launch is counted off). `PoolCapsKept`
then counts: the missions at work inject into the ids that hold slots.
`GlobalCapHolds` does the same over all pools: `TotalRunning` is the number of pairs
of a pool and a slot of it in use, which is the number of ids that hold one
(`TotalIsHeld`), and `GlobalKept` bounds it at every launch. It supposes that
`GlobalCap` is not 0. `resolveGlobalMaxParallel` does floor a saved cap between 0
and 1 to 0; the floor of one under elevated pressure would then let a mission
through. `FirstComeFirstServed` is about a step: `pickNextIndex` takes the first
that can go, so whoever is passed over could not have gone, and only a mission
with a scope can come back from a conflict check (`CheckShape`).
The hypothesis matters: ids are unique within one project only, and with two
projects' missions of one id the accounts are wrong (see the hazards).

`MissionRun_proofs` proves every safety property of the run `Mission` for any
number of pauses: `TypeCorrect`, `ReviewHasWork`, `NothingLeaks`, `StopsInTime`,
`OneOutcome`, `NeverTwoAgents`, `DiscardsInPeace`. `RunInv` relates `pc` to the
worktree (`TreeInv`), the flags of a stop (`StopInv`), what is recorded
(`EndInv`) and the store's own discard (`JobInv`). `OneProcess` and
`QuietDiscard` rest on `ProcInv`: at a place where an agent may be started or
a worktree discarded there is no process, unless a stop or a pause has cut the
pass off (`CutOff`); that the retry is such a place needs `FailureEnds`, that a
pass which failed has seen its process end.

`Loops_proofs` proves, for all loops, schedulers, editors and bounds, from
`LoopAssumption`, `TypeCorrect` and `NobodyRevives` (`LastWordKept`). The
invariant `WordInv` says of every operation in flight that, if nothing has made
it stale, what it will write agrees with what was last asked (`Sound`): for one
that has only a copy of the entry, for one that has computed the whole file,
and for a skip, which writes the store's copy.

`LoopCount_proofs` proves the rest of what the run `Loops` checks except liveness:
`EveryIterationCounted` (`Counted`), `NoMoreThanAllowed` (`Bounded`), `AtMostOneLate`
(`LateFires`) and `LoopsAreSpaced` (`Spaced`). Its invariant `CountInv` is about a
registry in which no write rested on a stale copy and no two ticks overlapped
(`clean`, as in the properties). Then at most one tick is under way, and a loop's
iterations are of three kinds: missions, lost in a crash, and marked but not yet
launched. The file counts all three (`FileCounts`), the tick's reading of it the
first two for every loop it still has ahead (`SeenCounts`, with the limit it was
compared to), and an operation with a copy or a new file in hand writes what that
will be (`Counting`); a loop in the middle of its registration has no iteration at
all (`NewUntouched`). `FileRests` and `Rested` say the same of the delay:
what is enabled in the file is not due before it has passed, so what the tick has
found due has rested. `FewLate` ties the iteration that may come late to a tick
that had the loop ahead. That only a tick at its mark is in a mark operation, one
loop at a time (`TickForm`), and that a loop is registered once (`OnceRegistered`)
hold without `clean`. `NoMoreThanAllowed` supposes positive limits: the loops that
are on at the start have run once, and the only limit the code sets is
`DEFAULT_MANAGER_LOOP_MAX_ITERATIONS`. The invariant was checked by TLC, with the
constants of `Loops.cfg` and with two loops, before it was proved.

`Sidecar_proofs` proves, for any number of instances, calls, brains, processes
and faults, from `SidecarAssumption`, everything the run `Sidecar` checks:
`OneSidecarEach`, `ExclusiveSection`, `RecordFinds`, `ExitStopsEarlier`, besides
`TypeCorrect`. The invariant adds that a call under the lock owns the file
(`Locked`), that between reclaim and drop no process once on record for the brain
is alive (`Cleared`), without which a record could overwrite that of a live
process, and that a call which has spawned during the shutdown is not at its
retry (`LateOnce`). `Frame` and `Moves` say once, for every action, how calls,
instances and processes move; the parts of the invariant follow from them.

Only model-checked: liveness (`Terminates`, `QueuedLaunch`, `SilenceEnds`,
`EarlyStopEnds`, `DueFires`), which this prover cannot do. Every other property of a
passing run is a theorem, some of them under the hypotheses named above.

## Known deviations

What a doc or a comment says and the code does not do, beyond the three that
violation runs demonstrate:

* A join of a router's two branches waits for both, while the router skips one
  (`runGraph.ts:640-646`, `graphIr.ts:303-306`): the join is never ready and the
  run ends as done. The comment says that no join waits on an untaken path.
* A test failure's patch replaces a node's outgoing edges by unconditional ones
  (`replanEngine.ts:223-228`), so a conditional successor starts whatever the
  output says (`graphIr.ts:277-281`). In `Routing` no test failures occur.
* Under `first_success` a contest whose first contestant failed reports that all
  did (`runGraph.ts:1048`, `1085`): the winner's rank is its position.
* An interrupt that a resume has cleared blocks again (`runControl.ts:6`,
  `141-147`).
* The promise of any mission that resolves clears the back-off of its pool, the
  one for a quota wall included (`scheduler.ts:590-592`, `519-523`).
* A run may journal both that it failed and that it completed, against
  `runtime.ts:1325-1331`: the managed loop journals its own failure, and a step
  cap that leaves work goes on to review.
* A stop that comes between the spawn of a process and the tracking of its PID
  kills nothing (`agentsStore.tsx:7056-7060`).
* A resume before the done event of a paused process turns the kill into an
  error and a retry. A transient stream error of the managed loop leaves
  `agentFailed` set although the loop recovers. A provider's definitive error
  followed by a successful retry still drops the worktree. A watchdog that has
  failed a mission does not keep its retry from reviving it. A stop after
  settlement may end in review with the worktree gone.
* `skipLoopNextRun` writes the store's copy of a loop and takes it to be in sync
  with the file (`agentsStore.tsx:8853-8855`). It is not: the scheduler's mark
  writes only `loops.json`, and `onFire` (`agentsStore.tsx:8659-8665`) leaves the
  entry of the store alone. A skip of a loop that has run therefore writes back
  its old `iterationCount` and regime: after a skip the limit of
  iterations counts from there again, with no other operation under way. `Skip`
  in `Loops` does this; `clean` exempts it.
* An iteration of a loop that was deleted after the tick had
  read it is launched. A loop deleted before its registration lands stays
  registered.
* A clean exit can leave a sidecar behind: a call that has looked at
  `SHUTTING_DOWN` before it was set may spawn after the exit's stop
  (`mod.rs:69-71` has both spawns covered). `ExitKills` says how far this goes.
* Two calls may find the same dead owner in a lock file. The slower one then
  removes the lock that the faster one has created, and both go on
  (`lock.rs:261-268`); after that either one's `Drop` removes the other's file.
* A crash between `create_new` and the write of the pid leaves a lock that no
  call can read or reclaim, so that no sidecar is ever started for that brain
  again without manual help (`lock.rs:221-229`; `lock.rs:238-243` excludes this).
* A child that times out twice stays in the handle, alive and not on record. If
  its instance crashes it has a second writer beside it (`lock.rs:19-22`).
* A call whose child was replaced by that of another call may be told that it is
  ready by the other one, records its own dead child and returns true; one that
  times out instead stops the other's child at its retry.

## Not modelled, and the plan

In this order:

1. `RunControl`: the callers' own copies of a run (pause then cancel with the
   returned copy, resume while the old loop is live), composed with an abstract
   loop.
2. `RunStore`: concurrent `persistRun`, crash, `reconcilePhantomGraphRuns`.
3. `MissionQueue`: read-modify-write of the queue file by concurrent callers,
   restart recovery and stale marking.
4. Proofs: which of the five hypotheses about graphs can be weakened, and the
   theorems of the modules above.

Components without a line in the plan are pure translations, I/O, or rendering;
`PROJECT.json` says which.
