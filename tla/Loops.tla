------------------------------- MODULE Loops -------------------------------
(***************************************************************************)
(* Recurring loops: the registry file .lazy/loops.json                     *)
(* (src/lib/agents/loopEngine.ts), the scheduler that fires due loops      *)
(* (loopScheduler.ts), and the operations of the agents store that edit    *)
(* the same file while a tick is under way.                                *)
(*                                                                         *)
(* Nothing locks the file.  Every operation reads it whole, awaits, and    *)
(* writes it back whole, so an operation is two or three steps here: an    *)
(* optional getLoop, the read, and the write.  The Rust commands behind a  *)
(* read and a write run on the main thread, so each is atomic.             *)
(*                                                                         *)
(* Time counts intervals of the scheduler (TICK_INTERVAL_MS); a cadence    *)
(* and the 5 s floor under it are rounded up to an interval.               *)
(***************************************************************************)
EXTENDS Naturals, Sequences, FiniteSets

CONSTANTS
  Loop,       \* loops, named by their anchor mission
  Mount,      \* bound: 1..n, the schedulers started one after another
  Editor,     \* bound: edits of the store that may be in flight at once
  Cadence,    \* intervals between two iterations of a loop
  Halt,       \* its stop condition: a kind, and a bound for the kinds that have one
  Gated,      \* loops with a regime
  Threshold,  \* trialPromotionThreshold
  FailLimit,  \* CONSECUTIVE_FAILURE_LIMIT
  HardCap,    \* HARD_ITERATION_CAP
  Edits,      \* edits to look at
  MaxEdits,   \* bound: edits of a user, stops, crashes and slow operations, together
  MaxTime     \* bound: the clock

StopCondition ==
  [kind : {"manual", "maxIterations", "untilDate", "untilPass"}, bound : Nat]

ASSUME LoopAssumption ==
  /\ Loop # {} /\ IsFiniteSet(Loop) /\ Mount \subseteq Nat /\ IsFiniteSet(Mount)
  /\ Cadence \in [Loop -> Nat \ {0}] /\ Halt \in [Loop -> StopCondition]
  /\ Gated \subseteq Loop /\ Threshold \in Nat \ {0}
  /\ FailLimit \in Nat /\ HardCap \in Nat /\ MaxEdits \in Nat /\ MaxTime \in Nat

VARIABLES
  now,      \* the clock
  file,     \* loops.json
  anchor,   \* the anchor mission of a loop: none yet, live, over or gone
  copy,     \* its loopConfig in the store
  child,    \* the iteration missions, in the order they were added
  mount,    \* schedulers: new, up or stopped
  last,     \* when a scheduler's interval last fired
  tick,     \* the tick of a scheduler
  job,      \* the file operation somebody is in
  edits,    \* counts towards MaxEdits
  clean,    \* history: nobody wrote a stale copy (of the file, or the store's when it lags
            \* behind the file: Skip) and no two ticks overlapped
  wanted,   \* history: what the last operation on a loop that landed asked for
  rest,     \* history: when the loop may be fired again after its last iteration
  lost,     \* history: iterations counted and lost in a crash
  late      \* history: iterations of a loop since it was disabled or deleted

store   == <<anchor, copy>>
history == <<clean, wanted, rest, lost, late>>
vars    == <<now, file, store, child, mount, last, tick, job, edits, history>>

\* An entry of the file.  next is nextRunAt, 0 when it has none; trust is the regime:
\* approvals counted in trial, validated from Threshold on.
Config == [known : BOOLEAN, enabled : BOOLEAN, next : Nat, count : Nat,
            trust : 0 .. Threshold]
Absent == [known |-> FALSE, enabled |-> FALSE, next |-> 0, count |-> 0, trust |-> 0]
\* What disableLoop writes for a loop its getLoop did not find.
Blank  == [Absent EXCEPT !.known = TRUE]

\* createLoopConfig
Fresh(l) == [Blank EXCEPT !.enabled = TRUE, !.next = now + Cadence[l]]

\* Operations of the file.  Those in Copying read the entry with getLoop first, or
\* take it from the store, and write that copy; those in Strict give up when getLoop
\* finds nothing.
Edit    == {"mark", "boot", "disable", "pause", "enable", "skip", "freeze", "archive",
            "approve", "fail", "register", "remove", "delete"}
Copying == {"disable", "pause", "skip", "freeze", "archive", "approve", "fail"}
Strict  == {"freeze", "archive", "approve", "fail", "delete"}
Turning == {"disable", "pause", "archive"}

Ticker(s) == <<"tick", s>>
Booter(s) == <<"boot", s>>
Hand(e)   == <<"hand", e>>
Actor == {Ticker(s) : s \in Mount} \cup {Booter(s) : s \in Mount} \cup {Hand(e) : e \in Editor}

\* loop: of the operation; stage: what it awaits; cfg: its copy of the entry; wait:
\* the delay markIterationFired will add; out: what it is about to write; stale:
\* somebody else has written the file since this operation read it.
Nobody  == CHOOSE l \in Loop : TRUE
Nothing == [l \in Loop |-> Absent]
Idle == [edit |-> "none", loop |-> Nobody, stage |-> "none", cfg |-> Absent, wait |-> 0,
         out |-> Nothing, stale |-> FALSE]
Op(e, l, stage) == [Idle EXCEPT !.edit = e, !.loop = l, !.stage = stage]

\* The tick: over, streak and passed are what it needs of the missions it saw when it
\* began; halting and due are loopsAutoDisabled and loopsToFire, seen the iteration
\* counts of the latter, cur the loop being fired.
NoTick == [pc |-> "idle", over |-> {}, streak |-> [l \in Loop |-> 0], passed |-> {},
           halting |-> {}, due |-> {}, seen |-> [l \in Loop |-> 0], cur |-> Nobody]

Runs(l) == {i \in DOMAIN child : child[i].loop = l}

\* The newer iteration comes first; the sort is stable.
Newer(i, j) == child[i].iter > child[j].iter \/ (child[i].iter = child[j].iter /\ i < j)

\* consecutiveLoopFailures
Streak(l) ==
  Cardinality({j \in Runs(l) : \A i \in Runs(l) : i = j \/ Newer(i, j) => child[i].state = "failed"})

\* The verdict of the last iteration in the list reaches minScore.
Passed(l) == \E i \in Runs(l) : child[i].state = "passed" /\ \A j \in Runs(l) : j <= i

Iteration == [loop : Loop, iter : Nat, state : {"run", "failed", "done", "passed"}]
First     == [loop : Loop, iter : {1}, state : {"failed", "done"}]

\* The app has been opened.  A loop is still to be created, or it has run once, well or
\* badly, and was due again while the app was closed.
Init ==
  /\ now = 3
  /\ anchor \in [Loop -> {"none", "live"}]
  /\ LET ran == {l \in Loop : anchor[l] = "live"}
     IN child \in {c \in [1 .. Cardinality(ran) -> First] : {c[i].loop : i \in DOMAIN c} = ran}
  /\ file = [l \in Loop |->
               IF anchor[l] # "live" THEN Absent
               ELSE [Blank EXCEPT !.enabled = TRUE, !.next = 2, !.count = 1,
                       !.trust = IF l \in Gated /\ Streak(l) = 0 THEN 1 ELSE 0]]
  /\ copy = [l \in Loop |->
               IF anchor[l] = "live" THEN [Blank EXCEPT !.enabled = TRUE, !.next = 1] ELSE Absent]
  /\ mount = [s \in Mount |-> IF s = 1 THEN "up" ELSE "new"]
  /\ last = [s \in Mount |-> now]
  /\ tick = [s \in Mount |-> NoTick] /\ edits = 0
  /\ job = [a \in Actor |-> IF a = Booter(1) THEN Op("boot", Nobody, "read") ELSE Idle]
  /\ clean = TRUE /\ wanted = [l \in Loop |-> IF anchor[l] = "live" THEN "on" ELSE "none"]
  /\ rest = [l \in Loop |-> 0] /\ lost = [l \in Loop |-> 0]
  /\ late = [l \in Loop |-> 0]

(***************************************************************************)
(* What a tick decides, and the operations of the file.                    *)
(***************************************************************************)

\* Mutant: one iteration more than maxIterations.
StopsLate(s, l) ==
  CASE Halt[l].kind = "manual" -> FALSE
    [] Halt[l].kind = "maxIterations" -> tick[s].seen[l] > Halt[l].bound
    [] Halt[l].kind = "untilDate" -> now >= Halt[l].bound
    [] Halt[l].kind = "untilPass" -> l \in tick[s].passed

\* shouldStopLoop, of the entry the tick has read and the missions it saw.
ShouldStop(s, l) ==
  CASE Halt[l].kind = "manual" -> FALSE
    [] Halt[l].kind = "maxIterations" -> tick[s].seen[l] >= Halt[l].bound
    [] Halt[l].kind = "untilDate" -> now >= Halt[l].bound
    [] Halt[l].kind = "untilPass" -> l \in tick[s].passed

\* Mutant: disableLoop keeps nextRunAt, and enabled with it: the copy is spread last.
PatchedLast(e, c) ==
  CASE e = "approve" -> [c EXCEPT !.trust = IF @ < Threshold THEN @ + 1 ELSE @]
    [] e = "fail"    -> [c EXCEPT !.trust = IF @ = Threshold THEN 0 ELSE @]
    [] OTHER -> c

\* Mutant: disableLoop clears nextRunAt but not enabled.
PatchedEnabled(e, c) ==
  CASE e \in Turning -> [(IF c.known THEN c ELSE Blank) EXCEPT !.next = 0]
    [] e = "approve" -> [c EXCEPT !.trust = IF @ < Threshold THEN @ + 1 ELSE @]
    [] e = "fail"    -> [c EXCEPT !.trust = IF @ = Threshold THEN 0 ELSE @]
    [] OTHER -> c

\* What the operations that copy the entry make of it: disableLoop, freezeLoopTemplate,
\* recordApproval and recordFailure.
Patched(e, c) ==
  CASE e \in Turning -> [(IF c.known THEN c ELSE Blank) EXCEPT !.enabled = FALSE, !.next = 0]
    [] e = "approve" -> [c EXCEPT !.trust = IF @ < Threshold THEN @ + 1 ELSE @]
    [] e = "fail"    -> [c EXCEPT !.trust = IF @ = Threshold THEN 0 ELSE @]
    [] OTHER -> c

\* Mutant: the startup load moves every enabled loop to now.
OverdueAll(c) == c.enabled /\ 0 < c.next

\* loadLoopsOnStartup: what was due while the app was closed is due now.
Overdue(c) == c.enabled /\ 0 < c.next /\ c.next < now

Loaded(f)  == [l \in Loop |-> IF Overdue(f[l]) THEN [f[l] EXCEPT !.next = now] ELSE f[l]]

\* Mutant: enabling a loop starts it over.
WrittenAnew(j, c) ==
  CASE j.edit = "mark"   -> [c EXCEPT !.count = @ + 1, !.next = now + j.wait]
    [] j.edit = "enable" -> Fresh(j.loop)
    [] j.edit \in {"remove", "delete"} -> Absent
    [] OTHER -> j.cfg

\* The entry an operation writes, given the one it has just read: markIterationFired,
\* enableLoop, unregisterLoop; the others write their copy.
Written(j, c) ==
  CASE j.edit = "mark"   -> [c EXCEPT !.count = @ + 1, !.next = now + j.wait]
    [] j.edit = "enable" -> [c EXCEPT !.enabled = TRUE, !.next = now + Cadence[j.loop]]
    [] j.edit \in {"remove", "delete"} -> Absent
    [] OTHER -> j.cfg

Output(j, f) ==
  IF j.edit = "boot" THEN Loaded(f) ELSE [f EXCEPT ![j.loop] = Written(j, f[j.loop])]

\* An operation that finds nothing to write returns.
Pointless(j, f) ==
  IF j.edit = "boot" THEN Loaded(f) = f
  ELSE j.edit \notin {"register", "remove", "delete"} /\ ~f[j.loop].known

\* What the store does when its operation has returned.
Return(j) ==
  /\ copy' = CASE j.edit \in {"enable", "pause"} -> [copy EXCEPT ![j.loop].enabled = (j.edit = "enable")]
               [] j.edit = "skip" -> [copy EXCEPT ![j.loop] = j.cfg]
               [] OTHER -> copy
  /\ anchor' = IF j.edit = "remove" THEN [anchor EXCEPT ![j.loop] = "gone"] ELSE anchor

\* getLoop
Get(a) ==
  /\ job[a].stage = "get"
  /\ LET c == file[job[a].loop]
         new == Patched(job[a].edit, c)
     IN IF (job[a].edit \in Strict /\ ~c.known) \/ (job[a].edit \in {"approve", "fail"} /\ new = c)
        THEN job' = [job EXCEPT ![a] = Idle]
        ELSE job' = [job EXCEPT ![a].stage = "read", ![a].cfg = new]
  /\ UNCHANGED <<now, file, store, child, mount, last, tick, edits, history>>

\* readLoops, and the entry is computed.
Read(a) ==
  /\ job[a].stage = "read"
  /\ IF Pointless(job[a], file)
     THEN job' = [job EXCEPT ![a] = Idle] /\ Return(job[a])
     ELSE /\ job' = [job EXCEPT ![a].stage = "write", ![a].out = Output(job[a], file)]
          /\ UNCHANGED store
  /\ UNCHANGED <<now, file, child, mount, last, tick, edits, history>>

\* Whoever holds a copy of what the file said.
Holds(j) == j.stage = "write" \/ (j.stage = "read" /\ j.edit \in Copying)

Wish(j) ==
  CASE j.edit \in {"enable", "register"} -> "on"
    [] j.edit \in Turning -> "off"
    [] j.edit \in {"remove", "delete"} -> "gone"
    [] OTHER -> wanted[j.loop]

\* writeLoops
Write(a) ==
  /\ job[a].stage = "write"
  /\ file' = job[a].out
  /\ job' = [b \in Actor |-> IF b = a THEN Idle
                             ELSE [job[b] EXCEPT !.stale = @ \/ Holds(job[b])]]
  /\ Return(job[a])
  /\ clean' = (clean /\ ~job[a].stale)
  /\ wanted' = [wanted EXCEPT ![job[a].loop] = Wish(job[a])]
  /\ rest' = CASE job[a].edit = "enable" -> [rest EXCEPT ![job[a].loop] = 0]
               [] job[a].edit = "mark" -> [rest EXCEPT ![job[a].loop] = job[a].out[job[a].loop].next]
               [] OTHER -> rest
  /\ late' = IF job[a].edit \in {"enable", "register"}
                THEN [late EXCEPT ![job[a].loop] = 0] ELSE late
  /\ UNCHANGED <<now, child, mount, last, tick, edits, lost>>

(***************************************************************************)
(* The scheduler.                                                          *)
(***************************************************************************)

\* startLoopScheduler: the interval is set and loadLoopsOnStartup begins.
Begin(s) ==
  /\ mount[s] = "new" /\ \A r \in Mount : r < s => mount[r] = "stopped"
  /\ mount' = [mount EXCEPT ![s] = "up"]
  /\ last' = [last EXCEPT ![s] = now]
  /\ job' = [job EXCEPT ![Booter(s)] = Op("boot", Nobody, "read")]
  /\ UNCHANGED <<now, file, store, child, tick, edits, history>>

\* The stop function: what is in flight goes on.
Stop(s) ==
  /\ mount[s] = "up" /\ edits < MaxEdits /\ edits' = edits + 1
  /\ mount' = [mount EXCEPT ![s] = "stopped"]
  /\ UNCHANGED <<now, file, store, child, last, tick, job, history>>

\* The interval fires; a tick in flight turns it away.
TickStarts(s) ==
  /\ mount[s] = "up" /\ tick[s].pc = "idle" /\ last[s] < now
  /\ last' = [last EXCEPT ![s] = now]
  /\ tick' = [tick EXCEPT ![s] = [NoTick EXCEPT
                !.pc = "read", !.over = {l \in Loop : anchor[l] = "over"},
                !.streak = [l \in Loop |-> Streak(l)], !.passed = {l \in Loop : Passed(l)}]]
  /\ clean' = (clean /\ \A r \in Mount : tick[r].pc = "idle")
  /\ UNCHANGED <<now, file, store, child, mount, job, edits, wanted, rest, lost, late>>

\* tick(): the loops to disable for good, and those that are due.
TickReads(s) ==
  /\ tick[s].pc = "read"
  /\ LET on   == {l \in Loop : file[l].known /\ file[l].enabled}
         halt == {l \in on : \/ l \in tick[s].over
                             \/ file[l].count >= HardCap
                             \/ tick[s].streak[l] >= FailLimit}
         due  == {l \in on \ halt : 0 < file[l].next /\ file[l].next <= now}
     IN tick' = [tick EXCEPT ![s].pc = "work", ![s].halting = halt, ![s].due = due,
                             ![s].seen = [l \in Loop |-> IF l \in due THEN file[l].count ELSE 0]]
  /\ UNCHANGED <<now, file, store, child, mount, last, job, edits, history>>

Free(s) == tick[s].pc = "work" /\ job[Ticker(s)] = Idle

\* await disableLoop, for each loop that is to be disabled
TickHalts(s) ==
  /\ Free(s)
  /\ \E l \in tick[s].halting :
       /\ job' = [job EXCEPT ![Ticker(s)] = Op("disable", l, "get")]
       /\ tick' = [tick EXCEPT ![s].halting = @ \ {l}]
  /\ UNCHANGED <<now, file, store, child, mount, last, edits, history>>

\* MIN_ITERATION_DELAY_MS is below one interval, so the cadence is the base delay.
Delay(s, l) ==
  Cadence[l] * 2 ^ (IF tick[s].streak[l] < FailLimit THEN tick[s].streak[l] ELSE FailLimit)

\* The next due loop, unless the scheduler was stopped: disabled if its stop condition
\* holds, and else marked as fired.
TickTakes(s) ==
  /\ Free(s) /\ tick[s].halting = {} /\ mount[s] = "up"
  /\ \E l \in tick[s].due :
       IF ShouldStop(s, l)
       THEN /\ job' = [job EXCEPT ![Ticker(s)] = Op("disable", l, "get")]
            /\ tick' = [tick EXCEPT ![s].due = @ \ {l}]
       ELSE /\ job' = [job EXCEPT ![Ticker(s)] = [Op("mark", l, "read") EXCEPT !.wait = Delay(s, l)]]
            /\ tick' = [tick EXCEPT ![s].due = @ \ {l}, ![s].pc = "mark", ![s].cur = l]
  /\ UNCHANGED <<now, file, store, child, mount, last, edits, history>>

\* The context is gathered and onFire adds the iteration mission.  Nothing is looked at
\* again: not the file, not the anchor, not whether the scheduler was stopped.
TickFires(s) ==
  /\ tick[s].pc = "mark" /\ job[Ticker(s)] = Idle
  /\ LET l == tick[s].cur
     IN /\ child' = Append(child, [loop |-> l, iter |-> tick[s].seen[l] + 1, state |-> "run"])
        /\ late' = IF wanted[l] \in {"off", "gone"} THEN [late EXCEPT ![l] = @ + 1] ELSE late
  /\ tick' = [tick EXCEPT ![s].pc = "work"]
  /\ UNCHANGED <<now, file, store, mount, last, job, edits, clean, wanted, rest, lost>>

\* Mutant: ticking is reset only when the scheduler was stopped half way.
TickStays(s) ==
  /\ Free(s) /\ tick[s].halting = {} /\ tick[s].due # {} /\ mount[s] = "stopped"
  /\ tick' = [tick EXCEPT ![s] = NoTick]
  /\ UNCHANGED <<now, file, store, child, mount, last, job, edits, history>>

\* Nothing is left, or the scheduler was stopped; ticking is reset.
TickEnds(s) ==
  /\ Free(s) /\ tick[s].halting = {} /\ (tick[s].due = {} \/ mount[s] = "stopped")
  /\ tick' = [tick EXCEPT ![s] = NoTick]
  /\ UNCHANGED <<now, file, store, child, mount, last, job, edits, history>>

(***************************************************************************)
(* The store.                                                              *)
(***************************************************************************)

Open(e) == job[Hand(e)] = Idle
Begins(e, op) == Open(e) /\ job' = [job EXCEPT ![Hand(e)] = op]

\* An edit of the user, of a loop whose anchor mission is in the store.
Edited(e, l, op) ==
  /\ op.edit \in Edits /\ edits < MaxEdits /\ edits' = edits + 1
  /\ anchor[l] \in {"live", "over"}
  /\ Begins(e, op)

\* create_loop: the anchor is added, then the loop is registered.
Create(e, l) ==
  /\ anchor[l] = "none"
  /\ anchor' = [anchor EXCEPT ![l] = "live"]
  /\ copy' = [copy EXCEPT ![l] = Fresh(l)]
  /\ Begins(e, [Op("register", l, "read") EXCEPT !.cfg = Fresh(l)])
  /\ UNCHANGED <<now, file, child, mount, last, tick, edits, history>>

\* toggleLoop, freezeLoopTemplate and deleteLoop.
Simple(e, l) ==
  /\ \/ Edited(e, l, Op("enable", l, "read"))
     \/ Edited(e, l, Op("pause", l, "get"))
     \/ Edited(e, l, Op("freeze", l, "get"))
     \/ Edited(e, l, Op("remove", l, "read"))
  /\ UNCHANGED <<now, file, store, child, mount, last, tick, history>>

\* skipLoopNextRun: the store's own copy, one cadence later.  No mark ever reaches that
\* copy, so a skip of a loop that has run is stale from the start, even on its own.
Skip(e, l) ==
  /\ Edited(e, l, [Op("skip", l, "read") EXCEPT
                     !.cfg = [copy[l] EXCEPT !.next = (IF @ = 0 THEN now ELSE @) + Cadence[l]],
                     !.stale = copy[l] # file[l]])
  /\ UNCHANGED <<now, file, store, child, mount, last, tick, history>>

\* archiveMission and deleteMission: stopLoopForTerminalMission.
Retire(e, l) ==
  /\ \/ Edited(e, l, Op("archive", l, "get")) /\ anchor' = [anchor EXCEPT ![l] = "over"]
     \/ Edited(e, l, Op("delete", l, "get")) /\ anchor' = [anchor EXCEPT ![l] = "gone"]
  /\ UNCHANGED <<now, file, copy, child, mount, last, tick, history>>

\* The anchor fails or is cancelled: nobody tells the registry.
AnchorEnds(l) ==
  /\ anchor[l] = "live" /\ "over" \in Edits /\ edits < MaxEdits /\ edits' = edits + 1
  /\ anchor' = [anchor EXCEPT ![l] = "over"]
  /\ UNCHANGED <<now, file, copy, child, mount, last, tick, job, history>>

\* The judge's verdict matters where the stop condition asks for it.
Outcome(l) == {"failed", "done"} \cup (IF Halt[l].kind = "untilPass" THEN {"passed"} ELSE {})

\* An iteration ends; the regime of a gated loop is told of a failure and of an approval.
ChildEnds(e, i) ==
  /\ i \in DOMAIN child /\ child[i].state = "run"
  /\ \E state \in Outcome(child[i].loop) :
       /\ child' = [child EXCEPT ![i].state = state]
       /\ IF child[i].loop \in Gated
          THEN Begins(e, Op(IF state = "failed" THEN "fail" ELSE "approve", child[i].loop, "get"))
          ELSE UNCHANGED job
  /\ UNCHANGED <<now, file, store, mount, last, tick, edits, history>>

\* runLoopSupervisionSweep: repeated_failure
Sweep(e, l) ==
  /\ file[l].known /\ file[l].enabled /\ Streak(l) >= FailLimit
  /\ Begins(e, Op("disable", l, "get"))
  /\ UNCHANGED <<now, file, store, child, mount, last, tick, edits, history>>

\* The app dies with everything that is in flight; missions and file are on disk.
Crash ==
  /\ "crash" \in Edits /\ edits < MaxEdits /\ edits' = edits + 1
  /\ mount' = [s \in Mount |-> IF mount[s] = "up" THEN "stopped" ELSE mount[s]]
  /\ tick' = [s \in Mount |-> NoTick]
  /\ job' = [a \in Actor |-> Idle]
  /\ lost' = [l \in Loop |-> lost[l] +
                Cardinality({s \in Mount : tick[s].pc = "mark" /\ tick[s].cur = l /\ job[Ticker(s)] = Idle})]
  /\ UNCHANGED <<now, file, store, child, last, clean, wanted, rest, late>>

\* A file operation that is still under way when the interval ends counts as an edit.
Advance ==
  /\ now < MaxTime /\ now' = now + 1
  /\ \/ (\A a \in Actor : job[a] = Idle) /\ edits' = edits
     \/ "slow" \in Edits /\ (\E a \in Actor : job[a] # Idle) /\ edits < MaxEdits /\ edits' = edits + 1
  /\ UNCHANGED <<file, store, child, mount, last, tick, job, history>>

FileStep(a) == Get(a) \/ Read(a) \/ Write(a)
TickStep(s) == TickReads(s) \/ TickHalts(s) \/ TickTakes(s) \/ TickFires(s) \/ TickEnds(s)

Next ==
  \/ \E a \in Actor : FileStep(a)
  \/ \E s \in Mount : Begin(s) \/ Stop(s) \/ TickStarts(s) \/ TickStep(s)
  \/ \E e \in Editor, l \in Loop : Create(e, l) \/ Simple(e, l) \/ Skip(e, l) \/ Retire(e, l) \/ Sweep(e, l)
  \/ \E l \in Loop : AnchorEnds(l)
  \/ \E e \in Editor, i \in DOMAIN child : ChildEnds(e, i)
  \/ Crash \/ Advance

Spec == Init /\ [][Next]_vars

\* Reads and writes of the file return, and the interval fires.
FairSpec ==
  /\ Spec /\ \A a \in Actor : WF_vars(FileStep(a))
  /\ \A s \in Mount : WF_vars(TickStep(s)) /\ WF_vars(TickStarts(s))
  /\ WF_vars(Advance)

(***************************************************************************)
(* Properties.                                                             *)
(***************************************************************************)

Place == {"get", "read", "write"}
JobType ==
  [edit : Edit \cup {"none"}, loop : Loop, stage : Place \cup {"none"}, cfg : Config,
   wait : Nat, out : [Loop -> Config], stale : BOOLEAN]
TickType ==
  [pc : {"idle", "read", "work", "mark"}, over : SUBSET Loop, streak : [Loop -> Nat],
   passed : SUBSET Loop, halting : SUBSET Loop, due : SUBSET Loop, seen : [Loop -> Nat], cur : Loop]

\* Every variable has its type.
TypeOK ==
  /\ now \in Nat /\ file \in [Loop -> Config] /\ copy \in [Loop -> Config]
  /\ anchor \in [Loop -> {"none", "live", "over", "gone"}]
  /\ child \in Seq(Iteration)
  /\ mount \in [Mount -> {"new", "up", "stopped"}] /\ last \in [Mount -> Nat]
  /\ tick \in [Mount -> TickType] /\ job \in [Actor -> JobType] /\ edits \in Nat
  /\ clean \in BOOLEAN /\ wanted \in [Loop -> {"none", "on", "off", "gone"}]
  /\ rest \in [Loop -> Nat] /\ lost \in [Loop -> Nat]
  /\ late \in [Loop -> Nat]

\* Iterations of l that are counted in the file and not yet missions.
InHand(l) == {s \in Mount : tick[s].pc = "mark" /\ tick[s].cur = l /\ job[Ticker(s)] = Idle}

\* The file counts every iteration once and no two bear the same number
\* (loopScheduler.ts:24-30), through restarts, crashes and edits, as long as nobody writes a
\* stale copy.  A skip of a loop that has run always does: it sets the count back, though
\* agentsStore.tsx:8853-8855 takes the store's copy to be in sync.
Counted ==
  clean => \A l \in Loop :
    /\ file[l].known => file[l].count = Cardinality(Runs(l)) + Cardinality(InHand(l)) + lost[l]
    /\ \A i, j \in Runs(l) : child[i].iter = child[j].iter => i = j

\* A loop never runs more iterations than its stop condition allows: the count the tick
\* has read is the one that shouldStopLoop and the mark go by (loopEngine.ts:378-405).
\* Stale writes are exempt: a skip gives a loop that has run all its iterations again.
Bounded ==
  clean => \A l \in Loop :
    Halt[l].kind = "maxIterations" => Cardinality(Runs(l)) <= Halt[l].bound

\* The file says of every loop what was last asked for it.
Agrees(f, w) ==
  \A l \in Loop : /\ f[l].known <=> w[l] \in {"on", "off"}
                  /\ f[l].known => (f[l].enabled <=> w[l] = "on")

\* The last operation that landed on a loop has the last word: a loop that was paused,
\* stopped or deleted stays so until the user enables it, whatever the tick, the startup
\* load and the regime write in between.
LastWordKept == clean => Agrees(file, wanted)

\* At most one iteration still comes after a loop was paused, disabled or deleted.
LateFires == clean => \A l \in Loop : late[l] <= 1

Marks(l) ==
  \E a \in Actor : /\ job[a].edit = "mark" /\ job[a].loop = l /\ job[a].stage = "read"
                   /\ job'[a].stage = "write"

\* A loop is not fired before the delay of its last iteration, doubled for each failure
\* in a row, has passed, unless the user has enabled it since.
Spaced == [][clean => \A l \in Loop : Marks(l) => now >= rest[l]]_vars

\* A loop that is due while a scheduler is up and has an interval ahead of it is taken up
\* by that scheduler, unless an edit or a halt comes first or the scheduler ends: ticking is
\* never left set, and no tick passes over what is due.  (Bound: the last interval is at
\* MaxTime.)
Due(l) == file[l].known /\ file[l].enabled /\ 0 < file[l].next /\ file[l].next <= now
TakenUp(s, l) == tick[s].pc = "mark" /\ tick[s].cur = l
DueFires ==
  \A l \in Loop, s \in Mount :
    Due(l) /\ mount[s] = "up" /\ last[s] < MaxTime ~> ~Due(l) \/ TakenUp(s, l) \/ mount[s] # "up"

(***************************************************************************)
(* What the sources say and the code does not do.                          *)
(***************************************************************************)

\* loopScheduler.ts:36-43: at most one fire per cadence, guaranteed.
OncePerCadence == [][\A l \in Loop : Marks(l) => now >= rest[l]]_vars
=============================================================================
