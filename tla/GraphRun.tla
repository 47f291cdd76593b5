------------------------------ MODULE GraphRun ------------------------------
(***************************************************************************)
(* The wave executor of the Single Graph Runtime: one call of runGraph     *)
(* (src/src/lib/agents/graph/runGraph.ts) over one compiled graph, the     *)
(* ready-set computation of graphIr.ts, the replan engine it calls on a    *)
(* failure (replanEngine.ts), the request registry of runControl.ts, and   *)
(* the documented re-entry runGraph(ir, deps, {existingRun:                *)
(* resumeGraphRun(run)}).                                                  *)
(*                                                                         *)
(* The loop alternates a "boundary", where it looks at its control         *)
(* channels, budget and ready set without an await, and a wave, in which   *)
(* the launches of the ready nodes interleave at their awaits.  Missions   *)
(* are environment processes: launchMission may throw, and a launched      *)
(* mission settles when it likes.                                          *)
(*                                                                         *)
(* Data is abstracted to what the control flow reads.  An output is the    *)
(* set of condition words it contains; a branch is whether there is one;   *)
(* a cost is a small number.  The order of the nodes in a wave is left     *)
(* open.                                                                   *)
(***************************************************************************)
EXTENDS Integers, FiniteSets, Sequences

CONSTANTS
  Node,         \* ids of the nodes of the compiled graph
  Spare,        \* ids for the verify nodes that replans insert
  Kind,         \* node |-> kind
  Edge0,        \* control edges of the compiled graph
  Branches,     \* router |-> its branches, in order
  Critical,     \* nodes whose `critical` is not false
  MaxAttempts,  \* node |-> maxAttempts (2 when the field is absent)
  Explicit,     \* nodes whose contract names a baseBranch
  Schema,       \* nodes whose contract has an outputSchema
  Width,        \* contest |-> n; loop |-> clamped iteration count
  Predicate,    \* loops with a predicate exit
  FirstSuccess, \* contests ranked by first_success
  Word,         \* the words that `contains` conditions look for
  Cost,         \* what a mission may cost
  Limit,        \* budget.limitUsd, or NoLimit
  MaxReplans,   \* defaults.maxReplans (2 when absent)
  MaxParallel,  \* defaults.maxParallelNodes; 0 is unlimited
  Diagnosis,    \* the diagnoses deps.diagnose may give; empty without it
  HasSignal,    \* is opts.signal provided?
  MaxResumes    \* bound on re-entries

Always  == "always"
NoLimit == -1
All     == Node \cup Spare

Kinds == {"task", "contest", "router", "join", "loop", "interrupt", "form"}

\* A control edge; cond is a word (contains) or Always (none, default,
\* outcome:success; validateGraph refuses outcome:fail).
EdgeType == [from: All, to: All, cond: Word \cup {Always}]

\* No set of nodes can be left only by going round: the graph is a DAG.
IsAcyclic(edges) ==
  ~ \E S \in SUBSET All : S # {} /\ \A n \in S : \E e \in edges : e.from = n /\ e.to \in S

\* What the compilers produce and validateGraph accepts.
ASSUME GraphAssumption ==
  /\ IsFiniteSet(Node) /\ Node \cap Spare = {}
  /\ Kind \in [Node -> Kinds]
  /\ Edge0 \subseteq [from: Node, to: Node, cond: Word \cup {Always}]
  /\ IsAcyclic(Edge0)
  /\ Always \notin Word
  /\ Critical \subseteq Node /\ Explicit \subseteq Node /\ Schema \subseteq Node
  /\ MaxAttempts \in [Node -> Nat]
  /\ Width \in [Node -> Nat]
  /\ \A n \in Node : Kind[n] = "contest" => Width[n] >= 2

ASSUME LimitAssumption ==
  /\ Cost \subseteq Nat
  /\ Limit \in Nat \cup {NoLimit}
  /\ MaxReplans \in Nat /\ MaxParallel \in Nat /\ MaxResumes \in Nat
  /\ HasSignal \in BOOLEAN
  /\ Diagnosis \subseteq [category: {"test_failure", "budget_exceeded", "other"},
                         preventable: BOOLEAN]

\* A run adds at most one verify node per replan.
ASSUME SpareAssumption == IsFiniteSet(Spare) /\ Cardinality(Spare) >= MaxReplans

VARIABLES
  graph,     \* effectiveIr: [nodes, edges, stem]; stem names a verify node's origin
  known,     \* the keys of run.nodeRuns
  st,        \* nodeRuns[n].status
  attempt,   \* nodeRuns[n].attempt
  out,       \* nodeRuns[n].output, as the words it contains
  branched,  \* the nodes whose nodeRun has a resultBranch
  status,    \* run.status
  spent,     \* run.budget.spentUsd
  replans,   \* run.replanCount
  pc,        \* where the loop is
  wave,      \* waveIds
  stage,     \* node |-> where its launch closure is
  count,     \* missions a contest or loop has launched in this attempt
  live,      \* node |-> missions launched for it that the loop has not seen settle
  res,       \* node |-> what waitForMissions gives for its mission
  todo,      \* results of the wave still to be processed
  pauseReq, cancelReq,  \* the registries of runControl.ts, for this runId
  aborted,   \* opts.signal.aborted
  resumes,   \* number of re-entries
  asked,     \* history: a caller asked the live loop to stop, and nobody resumed it
  incurred,  \* history: what the missions the loop waited for really cost
  delivered  \* history: contests whose last ranking saw a contestant succeed

nodeVars == <<st, attempt, out, branched>>
runVars  == <<graph, known, replans>>
waveVars == <<wave, stage, count, live, res, todo>>
ctlVars  == <<pauseReq, cancelReq, aborted, resumes, asked>>
moneyVars == <<spent, incurred, delivered>>
vars == <<nodeVars, runVars, waveVars, ctlVars, moneyVars, status, pc>>

NodeStatus == {"pending", "ready", "running", "blocked", "done", "failed", "skipped"}
RunStatus  == {"running", "paused", "interrupted", "failed", "done", "cancelled"}
Stage      == {"none", "recall", "launching", "waiting", "launched", "empty", "error"}
Verdict    == {"done", "review", "rejected", "failed", "missing"}
NoRes      == [kind |-> "none", cost |-> 0]
Result     == [kind: Verdict, cost: Cost \cup {0}]

-----------------------------------------------------------------------------
(* The graph: lookups of graphIr.ts and the fields of a node.             *)

Stem(n) == IF n \in Node THEN n ELSE graph.stem[n]
KindOf(n) == IF n \in Node THEN Kind[n] ELSE "task"
IsCritical(n) == n \in Critical
AttemptCap(n) == IF n \in Node THEN (IF MaxAttempts[n] < 5 THEN MaxAttempts[n] ELSE 5) ELSE 1

In(n)  == {e \in graph.edges : e.to = n}
Out(n) == {e \in graph.edges : e.from = n}

Preds(n) == {e.from : e \in In(n)}

\* evaluateCondition against a predecessor that is done.
CondHolds(c, n) == c = Always \/ c \in out[n]

\* Mutants: a skipped predecessor lets its successors start; so does a failed
\* one; conditions are not looked at.
ReadyAfterSkip(n) ==
  /\ st[n] \in {"pending", "ready"}
  /\ \A e \in In(n) : st[e.from] \in {"done", "skipped"}

ReadyAfterFailure(n) ==
  /\ st[n] \in {"pending", "ready"}
  /\ \A e \in In(n) : st[e.from] \in {"done", "failed"}

ReadyUnconditionally(n) ==
  /\ st[n] \in {"pending", "ready"}
  /\ \A e \in In(n) : st[e.from] = "done"

IsReady(n) ==
  /\ st[n] \in {"pending", "ready"}
  /\ \A e \in In(n) : st[e.from] = "done" /\ CondHolds(e.cond, e.from)

ReadyNodes == {n \in graph.nodes : IsReady(n)}

\* Joins and routers produce no branch: look through them.
PassThrough == {n \in graph.nodes : KindOf(n) \in {"join", "router"}}

\* The smallest set that has the predecessors of n and those of the joins and routers in it.
Producers(n) ==
  LET closed(S) == Preds(n) \subseteq S /\ \A m \in S \cap PassThrough : Preds(m) \subseteq S
  IN  {m \in graph.nodes \ PassThrough : \A S \in SUBSET graph.nodes : closed(S) => m \in S}

\* resolveInheritedBranches succeeds.
Inherits(n) == Stem(n) \in Explicit \/ Producers(n) \subseteq branched

\* Mutant: off by one.
BudgetGoneLate(amount) == Limit # NoLimit /\ amount > Limit

BudgetGone(amount) == Limit # NoLimit /\ amount >= Limit

-----------------------------------------------------------------------------
(* Start of a run, and the boundary between waves.                         *)

Graph0 == [nodes |-> Node, edges |-> Edge0, stem |-> [v \in Spare |-> v]]

Init ==
  /\ graph = Graph0 /\ known = Node
  /\ st = [n \in All |-> "pending"] /\ attempt = [n \in All |-> 0]
  /\ out = [n \in All |-> {}] /\ branched = {}
  /\ status = "running" /\ spent = 0 /\ replans = 0
  /\ incurred = 0 /\ delivered = {}
  /\ pc = "boundary" /\ wave = {} /\ todo = {}
  /\ stage = [n \in All |-> "none"] /\ res = [n \in All |-> NoRes]
  /\ count = [n \in All |-> 0] /\ live = [n \in All |-> 0]
  /\ pauseReq = FALSE /\ cancelReq = FALSE /\ aborted = FALSE /\ resumes = 0
  /\ asked = FALSE

ClearRunControl == pauseReq' = FALSE /\ cancelReq' = FALSE

\* runGraph returns a run in the given status.
Return(s) == pc' = "returned" /\ status' = s

\* Skip, as cancelGraphRun and the loop's own cancel branch do.
Skipped(s) ==
  [n \in All |-> IF n \in known /\ s[n] \in {"pending", "running", "ready"} THEN "skipped" ELSE s[n]]

AbortRun ==
  /\ pc = "boundary" /\ aborted
  /\ Return("cancelled") /\ ClearRunControl
  /\ UNCHANGED <<nodeVars, runVars, waveVars, moneyVars, aborted, resumes, asked>>

CancelRun ==
  /\ pc = "boundary" /\ ~aborted /\ cancelReq
  /\ st' = Skipped(st)
  /\ Return("cancelled") /\ ClearRunControl
  /\ UNCHANGED <<attempt, out, branched, runVars, waveVars, moneyVars, aborted, resumes, asked>>

PauseRun ==
  /\ pc = "boundary" /\ ~aborted /\ ~cancelReq /\ pauseReq
  /\ Return("paused")
  /\ UNCHANGED <<nodeVars, runVars, waveVars, moneyVars, ctlVars>>

\* None of the control channels stops the loop here.
Unstopped == pc = "boundary" /\ ~aborted /\ ~cancelReq /\ ~pauseReq

ExceedBudget ==
  /\ Unstopped /\ BudgetGone(spent)
  /\ Return("failed") /\ ClearRunControl
  /\ UNCHANGED <<nodeVars, runVars, waveVars, moneyVars, aborted, resumes, asked>>

\* Mutant: only failed nodes that are gone count.
FailedGone == \E n \in known : st[n] = "failed" /\ n \notin graph.nodes

\* A failed node the run cannot do without; a nodeRun whose node has left the
\* graph counts as one (`node?.critical !== false`).
FailedCritical ==
  \E n \in known : st[n] = "failed" /\ (n \notin graph.nodes \/ IsCritical(n))

\* No ready node and none running: the run is over.  (With one running the
\* loop sleeps and looks again, a step that changes nothing.)
Exhausted ==
  /\ Unstopped /\ ~BudgetGone(spent) /\ ReadyNodes = {}
  /\ \A n \in known : st[n] \notin {"running", "ready"}

FailRun ==
  /\ Exhausted /\ FailedCritical
  /\ Return("failed") /\ ClearRunControl
  /\ UNCHANGED <<nodeVars, runVars, waveVars, moneyVars, aborted, resumes, asked>>

InterruptRun ==
  /\ Exhausted /\ ~FailedCritical /\ \E n \in known : st[n] = "blocked"
  /\ Return("interrupted")
  /\ UNCHANGED <<nodeVars, runVars, waveVars, moneyVars, ctlVars>>

FinishRun ==
  /\ Exhausted /\ ~FailedCritical /\ \A n \in known : st[n] # "blocked"
  /\ Return("done") /\ ClearRunControl
  /\ UNCHANGED <<nodeVars, runVars, waveVars, moneyVars, aborted, resumes, asked>>

\* At most MaxParallel ready nodes are marked ready; each launch closure then
\* runs up to its first await: it resolves the branch to start from.
IsWave(W) ==
  /\ W \subseteq ReadyNodes
  /\ Cardinality(W) = IF MaxParallel > 0 /\ MaxParallel < Cardinality(ReadyNodes)
                      THEN MaxParallel ELSE Cardinality(ReadyNodes)

\* Mutant: an unresolved branch does not stop the launch.
StartWaveUnresolved ==
  /\ Unstopped /\ ~BudgetGone(spent) /\ ReadyNodes # {}
  /\ \E W \in SUBSET ReadyNodes :
       /\ IsWave(W)
       /\ wave' = W
       /\ st' = [n \in All |-> IF n \in W THEN "ready" ELSE st[n]]
       /\ stage' = [n \in All |-> IF n \in W THEN "recall" ELSE "none"]
  /\ pc' = "launch"
  /\ UNCHANGED <<attempt, out, branched, runVars, count, live, res, todo, ctlVars, moneyVars, status>>

StartWave ==
  /\ Unstopped /\ ~BudgetGone(spent) /\ ReadyNodes # {}
  /\ \E W \in SUBSET ReadyNodes :
       /\ IsWave(W)
       /\ wave' = W
       /\ st' = [n \in All |-> IF n \in W THEN "ready" ELSE st[n]]
       /\ stage' = [n \in All |-> IF n \notin W THEN "none"
                                  ELSE IF KindOf(n) \in {"task", "contest"} /\ ~Inherits(n)
                                       THEN "error" ELSE "recall"]
  /\ pc' = "launch"
  /\ UNCHANGED <<attempt, out, branched, runVars, count, live, res, todo, ctlVars, moneyVars, status>>

-----------------------------------------------------------------------------
(* The launch closures of a wave, one per node kind.  `stage` "empty" and  *)
(* "error" stand for a null mission id without and with an error.          *)

Launching(n, s) == pc = "launch" /\ n \in wave /\ stage[n] = s

\* Node n gets status s and its closure moves to stage g.
Step(n, s, g) == st' = [st EXCEPT ![n] = s] /\ stage' = [stage EXCEPT ![n] = g]

\* What the launch closures leave alone.
LaunchFrame == UNCHANGED <<runVars, wave, todo, ctlVars, pc>>

\* After the recall a task, contest or loop is running, one attempt more.
BeginNode(n) ==
  /\ Launching(n, "recall") /\ KindOf(n) \in {"task", "contest", "loop"}
  /\ KindOf(n) = "loop" => Width[n] > 0
  /\ Step(n, "running", "launching")
  /\ attempt' = [attempt EXCEPT ![n] = @ + 1]
  /\ count' = [count EXCEPT ![n] = 0]
  /\ LaunchFrame /\ UNCHANGED <<out, branched, live, res, moneyVars, status>>

\* A loop of no iterations is done at once, with no branch.
EmptyLoop(n) ==
  /\ Launching(n, "recall") /\ KindOf(n) = "loop" /\ Width[n] = 0
  /\ Step(n, "done", "empty")
  /\ attempt' = [attempt EXCEPT ![n] = @ + 1]
  /\ branched' = branched \ {n}
  /\ LaunchFrame /\ UNCHANGED <<out, count, live, res, moneyVars, status>>

\* launchMission answers with a mission id.
MissionLaunched(n) ==
  /\ Launching(n, "launching")
  /\ live' = [live EXCEPT ![n] = @ + 1]
  /\ count' = [count EXCEPT ![n] = @ + 1]
  /\ stage' = [stage EXCEPT ![n] =
                 IF KindOf(n) = "task" THEN "launched"
                 ELSE IF KindOf(n) = "contest" /\ count[n] + 1 < Width[n] THEN "launching"
                 ELSE "waiting"]
  /\ LaunchFrame /\ UNCHANGED <<nodeVars, res, moneyVars, status>>

\* launchMission throws.  A contest abandons the missions it has launched.
LaunchThrows(n) ==
  /\ Launching(n, "launching")
  /\ Step(n, IF KindOf(n) = "loop" THEN "failed" ELSE st[n], "error")
  /\ LaunchFrame /\ UNCHANGED <<attempt, out, branched, count, live, res, moneyVars, status>>

\* One iteration of a loop settles, with result r; its cost goes on no budget.
Iterated(n, r) ==
  /\ Launching(n, "waiting") /\ KindOf(n) = "loop" /\ r.kind # "missing"
  /\ live' = [live EXCEPT ![n] = @ - 1]
  /\ incurred' = incurred + r.cost
  /\ LaunchFrame /\ UNCHANGED <<attempt, out, count, res, spent, delivered, status>>

\* Only a mission that is 'done' lets a loop go on.
LoopContinues(n) ==
  /\ \E r \in Result : Iterated(n, r) /\ r.kind = "done"
  /\ count[n] < Width[n]
  /\ Step(n, "running", "launching") /\ UNCHANGED branched

\* Its predicate holds of the iteration, or a counted loop is through.
LoopDone(n) ==
  /\ \E r \in Result : Iterated(n, r) /\ r.kind = "done"
  /\ n \in Predicate \/ count[n] >= Width[n]
  /\ Step(n, "done", "empty")
  /\ \E b \in BOOLEAN : branched' = IF b THEN branched \cup {n} ELSE branched \ {n}

\* An iteration was not 'done', or the predicate never held.
LoopFails(n) ==
  /\ \E r \in Result :
       /\ Iterated(n, r)
       /\ r.kind = "done" => n \in Predicate /\ count[n] >= Width[n]
  /\ Step(n, "failed", "error") /\ UNCHANGED branched

\* rankContestants: the index of the contestant ranked first, if any.  Under
\* first_success the rank is the position, so only position 1 can be first;
\* otherwise 'done' goes before anything else, then the lower cost, stably.
Succeeded(k) == k \in {"done", "review", "rejected"}

RanksFirst(n, R, i) ==
  LET found == {j \in DOMAIN R : R[j].kind # "missing"}
      before(j, k) ==
        \/ R[j].kind = "done" /\ R[k].kind # "done"
        \/ /\ (R[j].kind = "done") = (R[k].kind = "done")
           /\ R[j].cost < R[k].cost \/ (R[j].cost = R[k].cost /\ j < k)
  IN  /\ i \in found
      /\ IF n \in FirstSuccess /\ \E j \in found : Succeeded(R[j].kind)
         THEN Succeeded(R[i].kind) /\ \A j \in found : i <= j
         ELSE \A j \in found \ {i} : before(i, j)

TotalCost(R) ==
  LET sum[i \in Nat] == IF i = 0 THEN 0 ELSE sum[i-1] + R[i].cost IN sum[Len(R)]

\* All contestants of a contest settle (or are given up on an abort).  The
\* winner's own result is processed again with the rest of the wave.
RankContest(n) ==
  /\ Launching(n, "waiting") /\ KindOf(n) = "contest"
  /\ \E R \in [1..Width[n] -> Result], b \in BOOLEAN :
       LET found  == {i \in 1..Width[n] : R[i].kind # "missing"}
           first  == {i \in found : RanksFirst(n, R, i)}
           won    == \E i \in first : Succeeded(R[i].kind)
           charge == IF won /\ \E i \in first : R[i].cost = 0 THEN 0 ELSE TotalCost(R)
       IN  /\ \A i \in 1..Width[n] : R[i].kind = "missing" => aborted /\ R[i].cost = 0
           /\ live' = [live EXCEPT ![n] = @ - Cardinality(found)]
           /\ spent' = spent + charge /\ incurred' = incurred + TotalCost(R)
           /\ delivered' = IF \E i \in found : Succeeded(R[i].kind)
                           THEN delivered \cup {n} ELSE delivered \ {n}
           /\ Step(n, IF won THEN "done" ELSE "failed", IF first = {} THEN "empty" ELSE "launched")
           /\ branched' = IF ~won THEN branched
                          ELSE IF b THEN branched \cup {n} ELSE branched \ {n}
           /\ res' = IF first = {} THEN res ELSE [res EXCEPT ![n] = R[CHOOSE i \in first : TRUE]]
  /\ LaunchFrame /\ UNCHANGED <<attempt, out, count, status>>

\* An interrupt node blocks and marks the run interrupted; the loop goes on.
Interrupt(n) ==
  /\ Launching(n, "recall") /\ KindOf(n) = "interrupt"
  /\ Step(n, "blocked", "empty") /\ status' = "interrupted"
  /\ LaunchFrame /\ UNCHANGED <<attempt, out, branched, count, live, res, moneyVars>>

PassJoin(n) ==
  /\ Launching(n, "recall") /\ KindOf(n) = "join"
  /\ Step(n, "done", "empty")
  /\ LaunchFrame /\ UNCHANGED <<attempt, out, branched, count, live, res, moneyVars, status>>

\* A form node, or any kind without a handler, fails.
Refuse(n) ==
  /\ Launching(n, "recall") /\ KindOf(n) = "form"
  /\ Step(n, "failed", "error")
  /\ LaunchFrame /\ UNCHANGED <<attempt, out, branched, count, live, res, moneyVars, status>>

\* The branch a router selects: the first whose condition its only
\* predecessor meets; none if that branch leads nowhere in this run.
Selects(n, i) ==
  /\ Cardinality(In(n)) = 1
  /\ \A p \in Preds(n) : CondHolds(Branches[n][i].cond, p)
  /\ \A p \in Preds(n), j \in 1..(i-1) : ~CondHolds(Branches[n][j].cond, p)
  /\ Branches[n][i].target \in known

\* Mutant: the branches not taken are left pending.
RouteWithoutSkips(n) ==
  /\ Launching(n, "recall") /\ KindOf(n) = "router"
  /\ \E i \in DOMAIN Branches[n] : Selects(n, i)
  /\ Step(n, "done", "empty")
  /\ LaunchFrame /\ UNCHANGED <<attempt, out, branched, count, live, res, moneyVars, status>>

Route(n) ==
  /\ Launching(n, "recall") /\ KindOf(n) = "router"
  /\ \E i \in DOMAIN Branches[n] :
       /\ Selects(n, i)
       /\ LET others == {Branches[n][j].target : j \in DOMAIN Branches[n] \ {i}}
          IN  st' = [m \in All |-> IF m = n THEN "done"
                                   ELSE IF m \in others \cap known /\ st[m] = "pending" THEN "skipped"
                                   ELSE st[m]]
  /\ stage' = [stage EXCEPT ![n] = "empty"]
  /\ LaunchFrame /\ UNCHANGED <<attempt, out, branched, count, live, res, moneyVars, status>>

RouteFails(n) ==
  /\ Launching(n, "recall") /\ KindOf(n) = "router"
  /\ \A i \in DOMAIN Branches[n] : ~Selects(n, i)
  /\ Step(n, "failed", "error")
  /\ LaunchFrame /\ UNCHANGED <<attempt, out, branched, count, live, res, moneyVars, status>>

\* Mutant: launch failures are not written to their nodes.
CloseLaunchSilently ==
  LET launched == {n \in wave : stage[n] = "launched"}
  IN  /\ pc = "launch" /\ \A n \in wave : stage[n] \in {"launched", "empty", "error"}
      /\ IF launched = {}
         THEN /\ pc' = "boundary" /\ wave' = {}
              /\ stage' = [n \in All |-> "none"]
         ELSE pc' = "wait" /\ UNCHANGED <<wave, stage>>
      /\ UNCHANGED <<nodeVars, runVars, count, live, res, todo, ctlVars, moneyVars, status>>

\* Every closure has returned: launch failures fail their node, and the loop
\* waits for the missions there are.
CloseLaunch ==
  LET launched == {n \in wave : stage[n] = "launched"}
  IN  /\ pc = "launch" /\ \A n \in wave : stage[n] \in {"launched", "empty", "error"}
      /\ st' = [n \in All |-> IF n \in wave /\ stage[n] = "error" THEN "failed" ELSE st[n]]
      /\ IF launched = {}
         THEN /\ pc' = "boundary" /\ wave' = {}
              /\ stage' = [n \in All |-> "none"]
         ELSE pc' = "wait" /\ UNCHANGED <<wave, stage>>
      /\ UNCHANGED <<attempt, out, branched, runVars, count, live, res, todo, ctlVars, moneyVars, status>>

-----------------------------------------------------------------------------
(* Waiting for the wave's missions, and processing their results.          *)

\* The mission of a task settles: any time after its launch.
MissionSettles(n) ==
  /\ pc \in {"launch", "wait"} /\ stage[n] = "launched" /\ res[n] = NoRes
  /\ \E r \in Result :
       /\ r.kind # "missing"
       /\ res' = [res EXCEPT ![n] = r]
       /\ incurred' = incurred + r.cost
  /\ live' = [live EXCEPT ![n] = @ - 1]
  /\ UNCHANGED <<nodeVars, runVars, wave, stage, count, todo, ctlVars, spent, delivered, status, pc>>

\* An abort makes the wait give the mission up.
GiveUpMission(n) ==
  /\ pc = "wait" /\ aborted /\ stage[n] = "launched" /\ res[n] = NoRes
  /\ res' = [res EXCEPT ![n] = [kind |-> "missing", cost |-> 0]]
  /\ UNCHANGED <<nodeVars, runVars, wave, stage, count, live, todo, ctlVars, moneyVars, status, pc>>

\* Mutant: the wait does not wait for all of them.
WaitReturnsEarly ==
  /\ pc = "wait" /\ pc' = "results"
  /\ todo' = {n \in wave : stage[n] = "launched" /\ res[n] # NoRes}
  /\ UNCHANGED <<nodeVars, runVars, wave, stage, count, live, res, ctlVars, moneyVars, status>>

WaitReturns ==
  LET launched == {n \in wave : stage[n] = "launched"}
  IN  /\ pc = "wait" /\ \A n \in launched : res[n] # NoRes
      /\ pc' = "results" /\ todo' = launched
      /\ UNCHANGED <<nodeVars, runVars, wave, stage, count, live, res, ctlVars, moneyVars, status>>

Processing(n) == pc = "results" /\ n \in todo

ResultFrame == UNCHANGED <<wave, stage, count, live, res, ctlVars, incurred, delivered>>

Charge(n) == spent' = spent + res[n].cost

\* Mutant: any mission that settled counts as a success.
SucceedUnchecked(n) ==
  /\ Processing(n) /\ res[n].kind # "missing"
  /\ st' = [st EXCEPT ![n] = "done"]
  /\ Charge(n) /\ todo' = todo \ {n}
  /\ ResultFrame /\ UNCHANGED <<attempt, out, branched, runVars, status, pc>>

\* The mission succeeded, or sits in review without a conclusive rejection.
Succeed(n) ==
  /\ Processing(n) /\ res[n].kind \in {"done", "review"}
  /\ \E w \in SUBSET Word, b \in BOOLEAN :
       /\ out' = [out EXCEPT ![n] = w]
       /\ branched' = IF b THEN branched \cup {n} ELSE branched \ {n}
  /\ st' = [st EXCEPT ![n] = "done"]
  /\ Charge(n) /\ todo' = todo \ {n}
  /\ ResultFrame /\ UNCHANGED <<attempt, runVars, status, pc>>

\* It succeeded, but its output does not meet the contract's outputSchema.
SchemaFails(n) ==
  /\ Processing(n) /\ res[n].kind \in {"done", "review"} /\ Stem(n) \in Schema
  /\ st' = [st EXCEPT ![n] = "failed"]
  /\ Charge(n) /\ todo' = todo \ {n}
  /\ ResultFrame /\ UNCHANGED <<attempt, out, branched, runVars, status, pc>>

\* The wait gave no mission for this id.
MissionNotFound(n) ==
  /\ Processing(n) /\ res[n].kind = "missing"
  /\ st' = [st EXCEPT ![n] = "failed"]
  /\ todo' = todo \ {n}
  /\ ResultFrame /\ UNCHANGED <<attempt, out, branched, runVars, spent, status, pc>>

\* The mission failed, was cancelled, or the judge conclusively rejected it.
Failing(n) == Processing(n) /\ res[n].kind \in {"rejected", "failed"}

\* No diagnosis is to be had (no diagnose, or it throws): the node stays failed.
FailNode(n) ==
  /\ Failing(n)
  /\ st' = [st EXCEPT ![n] = "failed"]
  /\ Charge(n) /\ todo' = todo \ {n}
  /\ ResultFrame /\ UNCHANGED <<attempt, out, branched, runVars, status, pc>>

(* replanEngine: the gates, then the patch.                               *)

GivesUp(n, d) == attempt[n] > AttemptCap(n) \/ (~d.preventable /\ attempt[n] > 1)

Exceeded(n) == replans >= MaxReplans \/ BudgetGone(spent + res[n].cost)

\* shouldAbort: runGraph returns at once, the wave's other results unprocessed.
ReplanAborts(n) ==
  /\ Failing(n)
  /\ \E d \in Diagnosis :
       \/ Exceeded(n)
       \/ GivesUp(n, d) /\ IsCritical(n)
       \/ ~GivesUp(n, d) /\ d.category = "budget_exceeded"
  /\ st' = [st EXCEPT ![n] = "failed"]
  /\ Charge(n) /\ Return("failed") /\ ClearRunControl
  /\ wave' = {} /\ todo' = {}
  /\ stage' = [m \in All |-> "none"] /\ res' = [m \in All |-> NoRes]
  /\ UNCHANGED <<attempt, out, branched, runVars, count, live, incurred, delivered, aborted, resumes, asked>>

\* A non-critical node that keeps failing is skipped.
ReplanSkips(n) ==
  /\ Failing(n) /\ ~Exceeded(n) /\ ~IsCritical(n)
  /\ \E d \in Diagnosis : GivesUp(n, d)
  /\ st' = [st EXCEPT ![n] = "skipped"]
  /\ replans' = replans + 1
  /\ Charge(n) /\ todo' = todo \ {n}
  /\ ResultFrame /\ UNCHANGED <<attempt, out, branched, graph, known, status, pc>>

\* Mutants: the edges into n are rerouted instead of those out of it; the
\* verify node gets no edges to n's successors.
InsertVerifyBackwards(n, v) ==
  [nodes |-> graph.nodes \cup {v},
   edges |-> (graph.edges \ In(n))
               \cup {[from |-> n, to |-> v, cond |-> Always]}
               \cup {[from |-> v, to |-> e.to, cond |-> Always] : e \in In(n)},
   stem  |-> [graph.stem EXCEPT ![v] = Stem(n)]]

InsertVerifyDangling(n, v) ==
  [nodes |-> graph.nodes \cup {v},
   edges |-> (graph.edges \ Out(n)) \cup {[from |-> n, to |-> v, cond |-> Always]},
   stem  |-> [graph.stem EXCEPT ![v] = Stem(n)]]

\* A verify node v goes between n and its successors; the new edges carry no
\* condition.
InsertVerify(n, v) ==
  [nodes |-> graph.nodes \cup {v},
   edges |-> (graph.edges \ Out(n))
               \cup {[from |-> n, to |-> v, cond |-> Always]}
               \cup {[from |-> v, to |-> e.to, cond |-> Always] : e \in Out(n)},
   stem  |-> [graph.stem EXCEPT ![v] = Stem(n)]]

\* Mutants: the verify node gets no nodeRun; the retry is not counted.
ReplanRetriesUnknown(n) ==
  /\ Failing(n) /\ ~Exceeded(n)
  /\ \E v \in Spare \ known : graph' = InsertVerify(n, v)
  /\ st' = [st EXCEPT ![n] = "pending"]
  /\ replans' = replans + 1
  /\ Charge(n) /\ todo' = todo \ {n}
  /\ ResultFrame /\ UNCHANGED <<attempt, out, branched, known, status, pc>>

ReplanRetriesFree(n) ==
  /\ Failing(n) /\ ~Exceeded(n)
  /\ \E d \in Diagnosis : ~GivesUp(n, d) /\ d.category = "other"
  /\ st' = [st EXCEPT ![n] = "pending"]
  /\ Charge(n) /\ todo' = todo \ {n}
  /\ ResultFrame /\ UNCHANGED <<attempt, out, branched, runVars, status, pc>>

\* The node is tried again; after a test failure, with a verify step after it.
ReplanRetries(n) ==
  /\ Failing(n) /\ ~Exceeded(n)
  /\ \E d \in Diagnosis :
       /\ ~GivesUp(n, d) /\ d.category # "budget_exceeded"
       /\ IF d.category = "test_failure"
          THEN \E v \in Spare \ known :
                 graph' = InsertVerify(n, v) /\ known' = known \cup {v}
          ELSE UNCHANGED <<graph, known>>
  /\ st' = [st EXCEPT ![n] = "pending"]
  /\ replans' = replans + 1
  /\ Charge(n) /\ todo' = todo \ {n}
  /\ ResultFrame /\ UNCHANGED <<attempt, out, branched, status, pc>>

CloseWave ==
  /\ pc = "results" /\ todo = {}
  /\ pc' = "boundary" /\ wave' = {}
  /\ stage' = [n \in All |-> "none"] /\ res' = [n \in All |-> NoRes]
  /\ UNCHANGED <<nodeVars, runVars, count, live, todo, ctlVars, moneyVars, status>>

-----------------------------------------------------------------------------
(* The run's environment: the callers of runControl.ts, holding the latest *)
(* persisted run, and the owner of the AbortSignal.                        *)

PauseGraphRun ==
  /\ pc # "returned" /\ status = "running" /\ ~pauseReq
  /\ pauseReq' = TRUE /\ asked' = TRUE
  /\ UNCHANGED <<nodeVars, runVars, waveVars, moneyVars, status, pc, cancelReq, aborted, resumes>>

\* Mutant: clearRunControl after the request is registered.
CancelGraphRunCleared ==
  /\ pc # "returned" /\ ~cancelReq
  /\ ClearRunControl /\ asked' = TRUE
  /\ UNCHANGED <<nodeVars, runVars, waveVars, moneyVars, status, pc, aborted, resumes>>

\* On a live loop: only a run that says "running" gets a request.
CancelGraphRun ==
  /\ pc # "returned" /\ ~cancelReq
  /\ pauseReq' = FALSE /\ cancelReq' = (status = "running") /\ asked' = TRUE
  /\ UNCHANGED <<nodeVars, runVars, waveVars, moneyVars, status, pc, aborted, resumes>>

\* On a run whose loop has returned: the caller's own copy is the run.
CancelReturnedRun ==
  /\ pc = "returned"
  /\ st' = Skipped(st) /\ status' = "cancelled" /\ ClearRunControl
  /\ UNCHANGED <<attempt, out, branched, runVars, waveVars, moneyVars, pc, aborted, resumes, asked>>

Abort ==
  /\ HasSignal /\ pc # "returned" /\ ~aborted
  /\ aborted' = TRUE
  /\ UNCHANGED <<nodeVars, runVars, waveVars, moneyVars, status, pc, pauseReq, cancelReq, resumes, asked>>

\* runGraph(ir, deps, {existingRun: resumeGraphRun(run)}): blocked nodes are
\* pending again, and the graph is the caller's, without the replans' patches.
Resume ==
  /\ pc = "returned" /\ status \in {"paused", "interrupted"} /\ resumes < MaxResumes
  /\ resumes' = resumes + 1
  /\ ClearRunControl /\ asked' = FALSE
  /\ st' = [n \in All |-> IF st[n] = "blocked" THEN "pending" ELSE st[n]]
  /\ status' = "running" /\ pc' = "boundary"
  /\ graph' = [Graph0 EXCEPT !.stem = graph.stem]
  /\ UNCHANGED <<attempt, out, branched, known, replans, waveVars, moneyVars, aborted>>

-----------------------------------------------------------------------------
Boundary ==
  \/ AbortRun \/ CancelRun \/ PauseRun \/ ExceedBudget
  \/ FailRun \/ InterruptRun \/ FinishRun \/ StartWave

Launch(n) ==
  \/ BeginNode(n) \/ EmptyLoop(n) \/ MissionLaunched(n) \/ LaunchThrows(n)
  \/ LoopContinues(n) \/ LoopDone(n) \/ LoopFails(n) \/ RankContest(n)
  \/ Interrupt(n) \/ PassJoin(n) \/ Refuse(n) \/ Route(n) \/ RouteFails(n)

Settle(n) == MissionSettles(n) \/ GiveUpMission(n)

Process(n) ==
  \/ Succeed(n) \/ SchemaFails(n) \/ MissionNotFound(n) \/ FailNode(n)
  \/ ReplanAborts(n) \/ ReplanSkips(n) \/ ReplanRetries(n)

Loop ==
  \/ Boundary
  \/ \E n \in All : Launch(n) \/ Settle(n) \/ Process(n)
  \/ CloseLaunch \/ WaitReturns \/ CloseWave

Control == PauseGraphRun \/ CancelGraphRun \/ CancelReturnedRun \/ Abort \/ Resume

Next == Loop \/ Control

Spec == Init /\ [][Next]_vars

\* The event loop runs what is runnable, launchMission answers or throws, and
\* every mission settles in the end; nobody has to use the controls.
FairSpec == Spec /\ WF_vars(Loop)

-----------------------------------------------------------------------------
(* Properties.                                                             *)

\* Every variable has its type.  (spent and incurred are sums of costs.)
TypeOK ==
  /\ graph \in [nodes: SUBSET All, edges: SUBSET EdgeType, stem: [Spare -> All]]
  /\ Node \subseteq graph.nodes /\ graph.nodes \subseteq known /\ known \subseteq All
  /\ st \in [All -> NodeStatus] /\ attempt \in [All -> Nat]
  /\ out \in [All -> SUBSET Word] /\ branched \subseteq All
  /\ status \in RunStatus /\ replans \in Nat /\ delivered \subseteq All
  /\ pc \in {"boundary", "launch", "wait", "results", "returned"}
  /\ wave \subseteq All /\ todo \subseteq All
  /\ stage \in [All -> Stage] /\ count \in [All -> Nat] /\ live \in [All -> Int]
  /\ res \in [All -> Result \cup {NoRes}]
  /\ pauseReq \in BOOLEAN /\ cancelReq \in BOOLEAN /\ aborted \in BOOLEAN
  /\ asked \in BOOLEAN /\ resumes \in Nat

Started(n) == st[n] \in {"ready", "running", "blocked", "done", "failed"}

\* No node has started unless everything it depends on in the compiled graph
\* is done: not while a wave is half processed, not after a replan rewired
\* the edges, not after a re-entry forgot the rewiring.  This is what "a
\* rejection never lets successors start" (runGraph.ts) comes to.
DepsDone == \A e \in Edge0 : Started(e.to) => st[e.from] = "done"

\* The same for the graph as the replans have patched it.
PatchedDepsDone == \A e \in graph.edges : Started(e.to) => st[e.from] = "done"

\* Between waves nothing is ready or running, so the loop never gets stuck in
\* its sleep(100) poll, and the cancel branch never meets a running node
\* ("it should never actually be hit").
BoundaryQuiet ==
  pc = "boundary" => \A n \in All : st[n] \notin {"ready", "running"}

\* No patch of the replan engine makes the graph cyclic.
Acyclic == IsAcyclic(graph.edges)

\* When the loop is between waves or has returned, no mission it launched is
\* still in flight unseen, but for those an abort gave up and those a contest
\* abandoned when one of its launches threw.
NoStrayMission ==
  pc \in {"boundary", "returned"} =>
    \A n \in All : live[n] > 0 => aborted \/ KindOf(n) = "contest"

\* Retries are paid for by replans: a node is launched at most once more than
\* there were replans, of which there are at most MaxReplans over all entries.
RetriesBounded ==
  /\ replans <= MaxReplans
  /\ \A n \in All : attempt[n] <= 1 + replans

\* A mission launched for a node without a baseBranch of its own finds a
\* branch of every upstream producer: it never starts from the repository's
\* default branch by accident, whatever the rest of the wave has done.
NoEmptyWorktree ==
  \A n \in wave : (stage[n] = "launching" /\ KindOf(n) \in {"task", "contest"}) => Inherits(n)

\* Work that is done stays done: no control, replan or re-entry takes it
\* back.  (In its own wave the result of a contest may still fail it.)
DoneIsKept ==
  [][\A n \in All : (st[n] = "done" /\ n \notin wave) => st'[n] = "done"]_vars

\* No wave starts once the missions so far have really cost the limit.
WaveWithinBudget ==
  [][(pc = "boundary" /\ pc' = "launch") => (Limit = NoLimit \/ incurred < Limit)]_vars

\* A pause or cancel asked of a live loop stops it: whatever the registries
\* hold by then, no wave starts until the run is resumed (runControl.ts).
RequestsObeyed ==
  [][(pc = "boundary" /\ pc' = "launch") => ~asked]_vars

\* The loop returns, however missions end and whatever replans do.
Terminates == []<>(pc = "returned")

\* A node entered over a conditional edge starts only if that condition holds
\* of its predecessor (getReadyNodes).
ConditionsHonoured ==
  \A e \in Edge0 : Started(e.to) => CondHolds(e.cond, e.from)

\* Of the branches of a router at most one target ever starts.
OneBranchTaken ==
  \A r \in Node : Kind[r] = "router" =>
    \A i, j \in DOMAIN Branches[r] :
      LET x == Branches[r][i].target
          y == Branches[r][j].target
      IN  (x \in Node /\ y \in Node /\ x # y) => ~(Started(x) /\ Started(y))

\* A contest counts as done only on the strength of a contestant that
\* succeeded, whichever attempt that was.
ContestDoneDelivered ==
  \A n \in Node : (Kind[n] = "contest" /\ st[n] = "done") => n \in delivered

\* A run whose nodes are all critical and unconditional ends "done" only
\* when every node is done.
DoneMeansComplete == status = "done" => \A n \in Node : st[n] = "done"

=============================================================================
