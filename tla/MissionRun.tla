----------------------------- MODULE MissionRun -----------------------------
(***************************************************************************)
(* One call of runMission (src/lib/agents/runtime.ts) from the session     *)
(* gate to its return: the launch, the passes of the agent, settlement     *)
(* with its one retry, and review; with what happens beside it: the stop,  *)
(* pause and resume buttons of the agents store, the agent process and its *)
(* done event (src-tauri), the duration timer and the silence watchdog.    *)
(*                                                                         *)
(* "rail" is the engine.  native: a one-shot CLI process, one per pass.    *)
(* managed and byok: the ReAct loop inside the app; byok, like native, has *)
(* the duration timer and the post-hoc budget check.                       *)
(***************************************************************************)
EXTENDS Naturals, Sequences

CONSTANTS
  Rails,      \* engines to look at
  MaxPauses   \* bound: pause clicks and budget warnings

ASSUME RailAssumption == Rails \subseteq {"native", "byok", "managed"} /\ MaxPauses \in Nat

VARIABLES
  rail,     \* the engine of the mission
  pc,       \* where runMission awaits
  status,   \* the mission's status in the store
  paused,   \* pauseFlag, and Mission.paused, which is set and cleared with it
  pauses,   \* counts towards MaxPauses
  stop,     \* stopFlag: "no", or when it was set: before the first settlement or after
  job,      \* stopMission's own kill-then-discard is under way
  tree,     \* the mission's worktree
  proc,     \* the process of the native rail
  killed,   \* what the poll of this pass has killed the process for
  hung,     \* the agent emits nothing any more and does not end by itself
  asking,   \* the last entry of the timeline is a question to the user
  failed,   \* loop.agentFailed
  wall,     \* the first error on the timeline is one recovery never retries
  reason,   \* managedOutcome.failed
  overBudget, overTime,  \* budgetExceeded, durationExceeded
  retried,  \* the one retry has begun
  strikes,  \* silenceStrikeCount
  final,    \* silenceFinal
  journal,  \* history: mission.completed and mission.failed, as journalled
  outcomes  \* history: the status of each captureOutcome

clicks == <<paused, pauses>>
stops  == <<stop, job>>
agent  == <<hung, asking>>
errors == <<failed, wall, reason>>
caps   == <<overBudget, overTime>>
dog    == <<strikes, final>>
logs   == <<journal, outcomes>>
pass   == <<agent, errors, caps, killed>>
vars   == <<rail, pc, status, clicks, stops, tree, proc, pass, retried, dog, logs>>

\* brief: a pass collects its context; held: a pass waits while paused; delay:
\* the back-off before the retry; capDiff, diff: computeMissionDiff after a cap
\* and after a pass; stopClean, failClean, dropClean: the worktree is being
\* discarded, and then the mission is cancelled, failed, or failed without an
\* event; tail: sub-agents and the automated evaluation.
Settled == {"stopClean", "failClean", "dropClean", "capDiff", "diff", "tail", "over"}
Armed   == {"brief", "pass", "held", "settle", "delay"}
Early   == {"gate", "prepare", "create"}

TypeOK ==
  /\ rail \in Rails /\ pc \in Early \cup Armed \cup Settled
  /\ status \in {"queued", "running", "review", "failed", "cancelled"}
  /\ paused \in BOOLEAN /\ pauses \in 0..MaxPauses
  /\ stop \in {"no", "early", "late"} /\ job \in BOOLEAN
  /\ tree \in {"none", "there", "gone"}
  /\ proc \in {"none", "starting", "up", "dying"} /\ killed \in {"no", "stop", "pause"}
  /\ hung \in BOOLEAN /\ asking \in BOOLEAN
  /\ failed \in BOOLEAN /\ wall \in BOOLEAN
  /\ reason \in {"none", "step cap", "no credits", "other"}
  /\ overBudget \in BOOLEAN /\ overTime \in BOOLEAN /\ retried \in BOOLEAN
  /\ strikes \in 0..2 /\ final \in BOOLEAN
  /\ journal \subseteq {"completed", "failed"}
  /\ outcomes \in Seq({"review", "failed", "cancelled"})

Init ==
  /\ rail \in Rails /\ pc = "gate" /\ status = "queued"
  /\ paused = FALSE /\ pauses = 0 /\ stop = "no" /\ job = FALSE
  /\ tree = "none" /\ proc = "none" /\ killed = "no"
  /\ hung = FALSE /\ asking = FALSE
  /\ failed = FALSE /\ wall = FALSE /\ reason = "none"
  /\ overBudget = FALSE /\ overTime = FALSE /\ retried = FALSE
  /\ strikes = 0 /\ final = FALSE /\ journal = {} /\ outcomes = <<>>

(***************************************************************************)
(* The agent process (src-tauri/src/commands/agent/run.rs).                *)
(***************************************************************************)

\* agent_run_kill finds a process only once its PID is tracked, after spawn().
Kill(p) == IF p = "up" THEN "dying" ELSE p

\* A pass is over: what it was is forgotten with it.
EndPass == pc' = "settle" /\ hung' = FALSE

\* The PID is tracked.
Spawned ==
  /\ proc = "starting" /\ proc' = "up"
  /\ UNCHANGED <<rail, pc, status, clicks, stops, tree, pass, retried, dog, logs>>

\* No slot, no such root, no such program: the invocation or an error event
\* says so, to a pass that still listens.
Rejected ==
  /\ proc = "starting" /\ proc' = "none"
  /\ IF pc = "pass"
     THEN EndPass /\ failed' = TRUE /\ \E w \in BOOLEAN : wall' = w
     ELSE UNCHANGED <<pc, hung, failed, wall>>
  /\ UNCHANGED <<rail, status, clicks, stops, tree, asking, reason, caps, killed, retried, dog, logs>>

\* applyLiveDone and the end of runOneNativePass: what a done event says of a
\* pass that listens.  An exit code other than 0 is the stop, the pause or an error.
DoneEvent(code) ==
  IF code = 0 \/ stop # "no"
  THEN EndPass /\ UNCHANGED <<failed, wall>>
  ELSE IF paused
       THEN pc' = "held" /\ hung' = FALSE /\ UNCHANGED <<failed, wall>>
       ELSE EndPass /\ failed' = TRUE /\ \E w \in BOOLEAN : wall' = w

\* The process ends: by itself, killed, or at MISSION_HARD_DEADLINE_SECS.
Exit(code) ==
  /\ proc \in {"up", "dying"} /\ proc' = "none"
  /\ hung /\ proc = "up" => code # 0
  /\ IF pc = "pass" THEN DoneEvent(code) ELSE UNCHANGED <<pc, hung, failed, wall>>
  /\ UNCHANGED <<rail, status, clicks, stops, tree, asking, reason, caps, killed, retried, dog, logs>>

(***************************************************************************)
(* runMission up to its first pass.                                        *)
(***************************************************************************)

Capture(v) == outcomes' = Append(outcomes, v)
Journal(e) == journal' = journal \cup {e}

\* The session gate, and the creation of the worktree, fail the mission alike.
FailLaunch ==
  /\ pc' = "over" /\ status' = "failed" /\ Journal("failed") /\ Capture("failed")
  /\ UNCHANGED <<rail, clicks, stops, tree, proc, pass, retried, dog>>

Gate ==
  /\ pc = "gate"
  /\ \/ FailLaunch
     \/ /\ pc' = "prepare"
        /\ UNCHANGED <<rail, status, clicks, stops, tree, proc, pass, retried, dog, logs>>

\* announceMissionRunning, whatever has happened to the mission meanwhile.
Prepare ==
  /\ pc = "prepare" /\ pc' = "create" /\ status' = "running"
  /\ UNCHANGED <<rail, clicks, stops, tree, proc, pass, retried, dog, logs>>

\* Mutant: a stop that comes while the worktree is created just returns (#22).
CreateLeaks ==
  /\ pc = "create"
  /\ \/ FailLaunch
     \/ stop = "no" /\ tree' = "there" /\ pc' = "brief" /\ UNCHANGED <<status, logs>>
     \/ /\ stop # "no" /\ tree' = "there" /\ pc' = "over" /\ status' = "cancelled"
        /\ Capture("cancelled") /\ UNCHANGED journal
  /\ UNCHANGED <<rail, clicks, stops, proc, pass, retried, dog>>

\* createMissionWorktree, and the look at the stop flag right after it.
Create ==
  /\ pc = "create"
  /\ \/ FailLaunch
     \/ /\ tree' = "there"
        /\ pc' = IF stop = "no" THEN "brief" ELSE "stopClean"
        /\ UNCHANGED <<rail, status, clicks, stops, proc, pass, retried, dog, logs>>

(***************************************************************************)
(* A pass (planAndAct).                                                    *)
(***************************************************************************)

\* The engine that the mission's model needs is not ready (failAllSteps).
Mismatch ==
  /\ pc = "brief" /\ EndPass /\ failed' = TRUE
  /\ UNCHANGED <<rail, status, clicks, stops, tree, proc, asking, wall, reason, caps, killed, retried, dog, logs>>

\* The listeners stand and the prompt is built: the agent is started.
Launch ==
  /\ pc = "brief" /\ pc' = "pass" /\ killed' = "no"
  /\ proc' = IF rail = "native" THEN "starting" ELSE proc
  /\ UNCHANGED <<rail, status, clicks, stops, tree, agent, errors, caps, retried, dog, logs>>

Working == pc = "pass" /\ ~hung /\ (rail = "native" => proc = "up")

Hang ==
  /\ Working /\ hung' = TRUE
  /\ UNCHANGED <<rail, pc, status, clicks, stops, tree, proc, asking, errors, caps, killed, retried, dog, logs>>

\* pollUntilAgentStop sees a request and kills once, whether or not there is a PID.
Poll ==
  /\ rail = "native" /\ pc = "pass" /\ killed = "no"
  /\ stop # "no" \/ paused
  /\ killed' = IF stop # "no" THEN "stop" ELSE "pause"
  /\ proc' = Kill(proc)
  /\ UNCHANGED <<rail, pc, status, clicks, stops, tree, agent, errors, caps, retried, dog, logs>>

\* The kill command has returned: the poll breaks, and without a done event the
\* pass has neither error nor pause to report (announceLiveSuccess).
PollBreaks ==
  /\ pc = "pass" /\ killed # "no" /\ EndPass
  /\ UNCHANGED <<rail, status, clicks, stops, tree, proc, asking, errors, caps, killed, retried, dog, logs>>

\* Mutant: the wait of a pause looks at the pause flag only.
HeldForever ==
  /\ rail = "native" /\ pc = "held" /\ ~paused /\ pc' = "brief"
  /\ UNCHANGED <<rail, status, clicks, stops, tree, proc, pass, retried, dog, logs>>

\* waitWhilePaused: the stop wins; a resume starts a new process with --resume.
NativeHeld ==
  /\ rail = "native" /\ pc = "held"
  /\ \/ stop # "no" /\ pc' = "settle"
     \/ stop = "no" /\ ~paused /\ pc' = "brief"
  /\ UNCHANGED <<rail, status, clicks, stops, tree, proc, pass, retried, dog, logs>>

(***************************************************************************)
(* The ReAct loop (planAndActManaged), which has no process.               *)
(***************************************************************************)

Looping == rail # "native" /\ pc = "pass"
loopSame == <<rail, status, clicks, stops, tree, proc, killed, retried, dog>>

\* A step that goes on; it may leave a question to the user on the timeline.
LoopStep ==
  /\ Looping /\ ~hung /\ \E q \in BOOLEAN : asking' = q
  /\ UNCHANGED <<loopSame, pc, hung, errors, caps, logs>>

\* A transient stream error goes on the timeline as an agent error and the loop
\* tries again (applyManagedTurnError).
Blip ==
  /\ Looping /\ ~hung /\ asking' = FALSE
  /\ failed' = TRUE /\ \E w \in BOOLEAN : wall' = IF failed THEN wall ELSE w
  /\ UNCHANGED <<loopSame, pc, hung, reason, caps, logs>>

\* pauseUntilResumed, between two steps.
LoopPauses ==
  /\ Looping /\ ~hung /\ paused /\ stop = "no"
  /\ pc' = "held" /\ asking' = FALSE
  /\ UNCHANGED <<loopSame, hung, errors, caps, logs>>

LoopHeld ==
  /\ rail # "native" /\ pc = "held"
  /\ \/ paused /\ stop # "no" /\ pc' = "settle"
     \/ ~paused /\ pc' = "pass"
  /\ UNCHANGED <<loopSame, pass, logs>>

\* The stop flag between two steps, or the abort of a turn that streams.
LoopStops ==
  /\ Looping /\ stop # "no" /\ EndPass /\ asking' = FALSE
  /\ UNCHANGED <<loopSame, errors, caps, logs>>

\* emitMetrics, at every other end of the loop: it journals the outcome, and its
\* metrics may tell the post-hoc check of byok that the budget is spent.
EmitMetrics(e) ==
  /\ ~hung /\ EndPass /\ asking' = FALSE /\ Journal(e)
  /\ overBudget' \in {overBudget, overBudget \/ rail = "byok"}

\* FINAL.
LoopDone ==
  /\ Looping /\ EmitMetrics("completed")
  /\ UNCHANGED <<loopSame, errors, overTime, outcomes>>

\* applyBudgetCap: onExceeded comes after the metrics.
LoopOverBudget ==
  ~hung /\ EndPass /\ asking' = FALSE /\ Journal("failed") /\ overBudget' = TRUE

\* max_steps_exhausted and consecutive_failures are step caps; the others are
\* stuck_*, iteration_cap_exceeded, and the caps, which raise their own flag too.
LoopFails ==
  /\ Looping
  /\ \/ EmitMetrics("failed") /\ reason' \in {"step cap", "other"} /\ UNCHANGED overTime
     \/ EmitMetrics("failed") /\ reason' = "other" /\ overTime' = TRUE
     \/ LoopOverBudget /\ reason' = "other" /\ UNCHANGED overTime
  /\ UNCHANGED <<loopSame, failed, wall, outcomes>>

\* stopForNoCredits and stopForDefinitiveProviderError do both: they put an
\* agent error on the timeline and report a failure.
LoopRefused ==
  /\ Looping /\ EmitMetrics("failed")
  /\ failed' = TRUE /\ reason' \in {"no credits", "other"}
  /\ \E w \in BOOLEAN : wall' = IF failed THEN wall ELSE w
  /\ UNCHANGED <<loopSame, overTime, outcomes>>

(***************************************************************************)
(* Settlement (runMissionSettle.ts) and its end (runMissionFinish.ts).     *)
(***************************************************************************)

\* settleManagedFailed: a step cap goes on to the diff, to see what can be saved.
AfterPass == IF reason \in {"none", "step cap"} THEN "diff" ELSE "dropClean"

\* Mutant: settlement forgets to look at the stop flag.
VerdictNoStop ==
  CASE overBudget \/ overTime -> "capDiff"
    [] OTHER ->
       IF ~failed THEN AfterPass
       ELSE IF retried \/ wall \/ reason = "no credits" THEN "failClean" ELSE "delay"

\* What settleAfterAgentLoop decides after the first pass, and retryThenResettle
\* after the second.  A first error is retried unless a quota or a wallet is empty.
Verdict ==
  CASE ~retried /\ stop # "no"                              -> "stopClean"
    [] (retried \/ stop = "no") /\ (overBudget \/ overTime) -> "capDiff"
    [] OTHER ->
       IF ~failed THEN AfterPass
       ELSE IF retried \/ wall \/ reason = "no credits" THEN "failClean" ELSE "delay"

Settle ==
  /\ pc = "settle" /\ pc' = Verdict
  /\ UNCHANGED <<rail, status, clicks, stops, tree, proc, pass, retried, dog, logs>>

\* The retry: its delay is over.
Retry ==
  /\ pc = "delay" /\ pc' = "brief" /\ retried' = TRUE /\ failed' = FALSE
  /\ UNCHANGED <<rail, status, clicks, stops, tree, proc, agent, wall, reason, caps, killed, dog, logs>>

Review(next) ==
  /\ pc' = next /\ status' = "review" /\ Journal("completed") /\ Capture("review")
  /\ UNCHANGED <<rail, clicks, stops, tree, proc, pass, retried, dog>>

Drop ==
  /\ pc' = "dropClean"
  /\ UNCHANGED <<rail, status, clicks, stops, tree, proc, pass, retried, dog, logs>>

\* Mutant: a cap that found work also discards it, as one that found none.
CapDiscards ==
  pc = "capDiff" /\ (Drop \/ (Capture("review") /\ Journal("completed") /\ pc' = "over"
    /\ status' = "review" /\ tree' = "gone"
    /\ UNCHANGED <<rail, clicks, stops, proc, pass, retried, dog>>))

\* Mutant: a cap that found work goes on to the ordinary review as well.
CapFallsThrough == pc = "capDiff" /\ (Drop \/ Review("diff"))

\* settleCapExceeded: work that exists is kept for review.
CapDiff == pc = "capDiff" /\ (Drop \/ Review("over"))

\* Step C: only a step cap that left nothing fails.
Diff ==
  /\ pc = "diff"
  /\ \/ Review("tail")
     \/ reason = "step cap" /\ Drop

\* cleanupWorktree, then the status, the event and the outcome.
Clean(at, end, events) ==
  /\ pc = at /\ pc' = "over" /\ tree' = "gone" /\ status' = end
  /\ journal' = journal \cup events /\ Capture(end)
  /\ UNCHANGED <<rail, clicks, stops, proc, pass, retried, dog>>

Discard ==
  \/ Clean("stopClean", "cancelled", {})
  \/ Clean("failClean", "failed", {"failed"})
  \/ Clean("dropClean", "failed", {})

Evaluate ==
  /\ pc = "tail" /\ pc' = "over"
  /\ UNCHANGED <<rail, status, clicks, stops, tree, proc, pass, retried, dog, logs>>

(***************************************************************************)
(* Beside the run: the store's buttons, the timer and the watchdog.        *)
(***************************************************************************)

\* stopMission, whose buttons show while the mission is queued or running.  The
\* run honours a stop that comes before the first settlement.
StopMission ==
  /\ status \in {"queued", "running"} /\ stop = "no"
  /\ stop' = IF pc \in Early \/ (pc \in Armed \ {"delay"} /\ ~retried) THEN "early" ELSE "late"
  /\ status' = "cancelled"
  /\ job' = (tree # "none")
  /\ proc' = IF tree # "none" THEN Kill(proc) ELSE proc
  /\ UNCHANGED <<rail, pc, clicks, tree, pass, retried, dog, logs>>

\* cleanupStoppedWorktree, after the kill.
StopDiscards ==
  /\ job /\ job' = FALSE /\ tree' = "gone"
  /\ UNCHANGED <<rail, pc, status, clicks, stop, proc, pass, retried, dog, logs>>

\* pauseMission, and onBudgetPaused and onDurationPaused of the loop.
PauseMission ==
  /\ status = "running" /\ ~paused /\ pauses < MaxPauses
  /\ paused' = TRUE /\ pauses' = pauses + 1
  /\ UNCHANGED <<rail, pc, status, stops, tree, proc, pass, retried, dog, logs>>

ResumeMission ==
  /\ status = "running" /\ paused /\ paused' = FALSE
  /\ UNCHANGED <<rail, pc, status, pauses, stops, tree, proc, pass, retried, dog, logs>>

\* Mutant: the timer settles the mission by itself.
TimerSettles ==
  /\ rail # "managed" /\ pc \in Armed /\ ~overTime
  /\ overTime' = TRUE /\ pc' = "dropClean" /\ proc' = Kill(proc)
  /\ UNCHANGED <<rail, status, clicks, stops, tree, agent, errors, overBudget, killed, retried, dog, logs>>

\* The wall-clock cap of the rails without a live one: one shot, over both passes.
Timer ==
  /\ rail # "managed" /\ pc \in Armed /\ ~overTime
  /\ overTime' = TRUE /\ proc' = Kill(proc)
  /\ UNCHANGED <<rail, pc, status, clicks, stops, tree, agent, errors, overBudget, killed, retried, dog, logs>>

\* Mutant: the first strike starts the agent again.
SilenceRelaunches ==
  /\ pc \in Armed /\ ~final /\ ~paused /\ ~asking
  /\ strikes' = strikes + 1
  /\ IF strikes = 0
     THEN UNCHANGED <<final, status, proc>> /\ pc' = "brief"
     ELSE final' = TRUE /\ status' = "failed" /\ proc' = Kill(proc) /\ UNCHANGED pc
  /\ UNCHANGED <<rail, clicks, stops, tree, pass, retried, logs>>

\* Mutant: the first strike re-arms the window without being counted.
SilenceForgets ==
  /\ pc \in Armed /\ ~final /\ ~paused /\ ~asking
  /\ IF strikes = 0
     THEN UNCHANGED <<final, status, proc, strikes>>
     ELSE final' = TRUE /\ status' = "failed" /\ proc' = Kill(proc) /\ strikes' = strikes + 1
  /\ UNCHANGED <<rail, pc, clicks, stops, tree, pass, retried, logs>>

\* decideSilenceTimeout after a window without an update: a pause or a question
\* only re-arms, the first strike waits, the second one fails the mission.
Silence ==
  /\ pc \in Armed /\ ~final /\ ~paused /\ ~asking
  /\ strikes' = strikes + 1
  /\ IF strikes = 0
     THEN UNCHANGED <<final, status, proc>>
     ELSE final' = TRUE /\ status' = "failed" /\ proc' = Kill(proc)
  /\ UNCHANGED <<rail, pc, clicks, stops, tree, pass, retried, logs>>

(***************************************************************************)
(* The specification.                                                      *)
(***************************************************************************)

\* What the run does by itself once it may.
RunStep ==
  \/ Gate \/ Prepare \/ Create \/ Launch \/ Poll \/ PollBreaks \/ NativeHeld
  \/ LoopHeld \/ LoopStops \/ Settle \/ Retry \/ CapDiff \/ Diff \/ Discard

ProcessEnds == \E code \in {0, 1} : Exit(code)

Next ==
  \/ RunStep \/ Mismatch \/ Evaluate
  \/ Spawned \/ Rejected \/ ProcessEnds \/ Hang
  \/ LoopStep \/ Blip \/ LoopPauses \/ LoopDone \/ LoopFails \/ LoopRefused
  \/ StopMission \/ StopDiscards \/ PauseMission \/ ResumeMission \/ Timer \/ Silence

Spec == Init /\ [][Next]_vars

\* The awaits of a run are bounded, every process ends (the Rust side kills it
\* at the hard deadline), and a window of silence that nobody breaks expires.
\* Nothing says that an agent ever finishes, or that the evaluation does.
FairSpec ==
  /\ Spec /\ WF_vars(RunStep) /\ WF_vars(ProcessEnds) /\ WF_vars(Spawned)
  /\ WF_vars(hung /\ Silence)

(***************************************************************************)
(* Properties.                                                             *)
(***************************************************************************)

\* A mission that shows for review still has the worktree the review is about,
\* unless the user has stopped it (runtime.ts:1606-1611: work already written is
\* never destroyed by a cap, a step cap or a late watchdog).
ReviewKeepsWorktree == status = "review" /\ stop = "no" => tree = "there"

\* A run that is over without a review leaves no worktree behind (#22), whatever
\* the watchdog, the timer and the buttons did on the way.
NoWorktreeLeak == pc = "over" /\ status # "review" /\ ~job => tree # "there"

\* A stop that comes before the first settlement is honoured: the mission never
\* ends in review, although the status may leave "cancelled" on the way there.
EarlyStopHonoured == pc = "over" /\ stop = "early" => status \in {"cancelled", "failed"}

\* One run records one outcome, and it is the status the mission shows in the end,
\* even when the watchdog or a stop has changed that status before the run was over.
OutcomeTrue == Len(outcomes) <= 1 /\ (pc = "over" => outcomes = <<status>>)

\* No pass starts an agent while one of an earlier pass still works in the same
\* worktree (silenceWatchdog.ts:91-95).
OneProcess == [][proc' = "starting" => proc \in {"none", "starting"}]_vars

\* The run takes a worktree away only when no agent works in it.  A stop does not
\* wait for the process, and a pass that a pause has cut off may leave one behind.
QuietDiscard ==
  [][tree = "there" /\ tree' = "gone" /\ stop = "no" /\ killed = "no" => proc = "none"]_vars

\* A mission whose agent hangs does not stay "running": it fails, unless it is
\* paused or waits for an answer (silenceWatchdog.ts:1-40).
SilenceEnds == hung /\ status = "running" ~> status # "running" \/ ~hung \/ paused \/ asking

\* A run that is stopped before its first settlement returns.
EarlyStopEnds == stop = "early" ~> pc = "over"

(***************************************************************************)
(* What the sources say and the code does not do.                          *)
(***************************************************************************)

\* nativePause.ts:3-6: a pause kills the process, captures the session from the done
\* event and waits; so a pass killed for a pause does not settle while that event is
\* still to come.
PauseWaits ==
  [][pc = "pass" /\ pc' = "settle" /\ killed = "pause" /\ stop = "no" => proc' # "dying"]_vars
=============================================================================
