---------------------------- MODULE GraphRunDag -----------------------------
(***************************************************************************)
(* The wave executor implements DagRun: a node is done for DagRun when it  *)
(* is done and its wave is over.                                           *)
(***************************************************************************)
EXTENDS GraphRun

Settled(n) == st[n] = "done" /\ n \notin wave

Dag == INSTANCE DagRun WITH
         Task   <- Node,
         Needs  <- {<<e.from, e.to>> : e \in Edge0},
         done   <- {n \in Node : Settled(n)},
         active <- wave \cap Node,
         open   <- pc # "returned"

\* Every run of the executor, with its replans and re-entries, is a run of a
\* DAG in waves: nothing starts before its dependencies in the compiled graph
\* are done for good, and nothing done is done again.
RunsAsDag == Dag!DagSpec
-----------------------------------------------------------------------------
(* The inductive invariant.                                                *)

\* What each place of the loop leaves in the wave variables.
WaveShape ==
  /\ todo \subseteq wave /\ wave \subseteq graph.nodes
  /\ pc \in {"boundary", "returned"} => wave = {}
  /\ pc # "results" => todo = {}
  /\ \A n \in All : stage[n] # "none" => n \in wave
  /\ \A n \in wave : pc = "launch" => stage[n] # "none"

\* Nodes are ready or running only in the wave, until their result is in.
Busy(n) == st[n] \in {"ready", "running"}

BusyShape ==
  /\ \A n \in All : Busy(n) => n \in wave \/ (pc = "returned" /\ status \in {"failed", "cancelled"})
  /\ \A n \in wave : stage[n] = "empty" => ~Busy(n)
  /\ \A n \in wave : (Busy(n) /\ pc \in {"wait", "results"}) => stage[n] = "launched"
  /\ \A n \in wave : (Busy(n) /\ pc = "results") => n \in todo

\* A node of the wave has started, until its result is processed.
WaveStarted ==
  \A n \in wave : (pc \in {"launch", "wait"} \/ n \in todo) => Started(n)

EdgesInside == \A e \in graph.edges : e.from \in graph.nodes /\ e.to \in graph.nodes

\* Verify nodes hang below their origin ...
StemEdges ==
  \A v \in Spare \cap graph.nodes :
    /\ graph.stem[v] \in Node
    /\ \E e \in graph.edges :
         e.to = v /\ (e.from = graph.stem[v] \/ (e.from \in Spare /\ graph.stem[e.from] = graph.stem[v]))

\* ... and above what depends on it.
StemCovers ==
  \A d \in Edge0 : \E e \in graph.edges :
    /\ e.to = d.to
    /\ e.from = d.from \/ (e.from \in Spare /\ graph.stem[e.from] = d.from)

FreshSpares == \A v \in All : v \notin known => st[v] = "pending"

SettledDeps ==
  /\ \A e \in graph.edges : Started(e.to) => Settled(e.from)
  /\ \A e \in Edge0 : Started(e.to) => Settled(e.from)
  /\ \A v \in Spare : Started(v) => Settled(graph.stem[v])

\* A node that may yet be launched has used up one attempt less.
RetriesShape ==
  /\ RetriesBounded
  /\ \A n \in All : st[n] \in {"pending", "ready", "blocked"} => attempt[n] <= replans
  /\ \A n \in All : stage[n] = "recall" => pc = "launch" /\ st[n] = "ready"

\* How far a launch closure is, and the status and kind of its node.
StageShape ==
  \A n \in All :
    /\ stage[n] \in {"recall", "launching", "waiting"} => pc = "launch"
    /\ stage[n] = "recall" => st[n] = "ready"
    /\ stage[n] \in {"launching", "waiting"} => st[n] = "running" /\ KindOf(n) \in {"task", "contest", "loop"}
    /\ stage[n] = "launched" => KindOf(n) \in {"task", "contest"}

\* A result belongs to a mission the wave waits for, and that of a contest is its winner's.
ResultShape ==
  \A n \in All :
    /\ res[n] # NoRes => stage[n] = "launched"
    /\ (stage[n] = "launched" /\ (pc = "results" \/ KindOf(n) = "contest")) => res[n] # NoRes
    /\ (KindOf(n) = "contest" /\ res[n].kind \in {"done", "review"}) => n \in delivered

\* Without an abort, a task or a loop has one mission in flight while it waits for it.
LiveShape ==
  \A n \in All : (~aborted /\ KindOf(n) # "contest") =>
    live[n] = IF stage[n] = "waiting" \/ (stage[n] = "launched" /\ res[n] = NoRes) THEN 1 ELSE 0

\* The producers of a node that is about to launch are not in its wave.
InheritShape ==
  \A n \in wave : (stage[n] \in {"recall", "launching"} /\ KindOf(n) \in {"task", "contest"}) =>
    Inherits(n) /\ Producers(n) \cap wave = {}

IInv ==
  /\ TypeOK /\ WaveShape /\ BusyShape /\ WaveStarted
  /\ EdgesInside /\ StemEdges /\ StemCovers /\ FreshSpares /\ SettledDeps

WaveInv == IInv /\ StageShape /\ ResultShape /\ LiveShape /\ InheritShape /\ ContestDoneDelivered
=============================================================================
